---- MODULE Spec2Model ----
(***************************************************************************)
(* Approval lifecycle of the approval-buttons plugin: the text parser and  *)
(* the resolution detector (lib/approval-parser.ts), the pending store     *)
(* (lib/approval-store.ts) and the message_sending coordinator (index.ts,  *)
(* v4 single-channel hook and v5 handleTelegram / handleSlack).            *)
(*                                                                         *)
(* Strings are sequences of one-character strings, so that includes(),     *)
(* slice(), toLowerCase(), trim() and the regular expressions are computed *)
(* on the characters as the code computes them.                            *)
(***************************************************************************)
EXTENDS Integers, Sequences, FiniteSets, TLC

\* ------------------------------------------------------------------------
\* Strings
\* ------------------------------------------------------------------------

Min(a, b) == IF a < b THEN a ELSE b

UpperChars == <<"A","B","C","D","E","F","G","H","I","J","K","L","M",
                "N","O","P","Q","R","S","T","U","V","W","X","Y","Z">>
LowerChars == <<"a","b","c","d","e","f","g","h","i","j","k","l","m",
                "n","o","p","q","r","s","t","u","v","w","x","y","z">>

\* One character of String.prototype.toLowerCase / of a regex's i flag.
LowerChar(c) ==
  IF \E k \in 1..26 : UpperChars[k] = c
    THEN LowerChars[CHOOSE k \in 1..26 : UpperChars[k] = c]
    ELSE c

toLowerCase(s) == [i \in 1..Len(s) |-> LowerChar(s[i])]

\* The regex class \s, and the line terminators that . does not match.
IsSpace(c) == c \in {" ", "\t", "\n", "\r"}
IsLineTerminator(c) == c \in {"\n", "\r"}

\* The regex class [a-f0-9-] under the i flag.
IsHex(c) == LowerChar(c) \in {"a","b","c","d","e","f","0","1","2","3","4",
                              "5","6","7","8","9","-"}

\* String.prototype.includes
Includes(text, sub) ==
  \E i \in 0..(Len(text) - Len(sub)) : SubSeq(text, i + 1, i + Len(sub)) = sub

\* The pattern matches at position p of text, ignoring case.
MatchesAtI(text, p, pat) ==
  /\ p + Len(pat) - 1 <= Len(text)
  /\ \A k \in 1..Len(pat) : LowerChar(text[p + k - 1]) = LowerChar(pat[k])

\* String.prototype.trim
trim(s) ==
  LET keep == {i \in 1..Len(s) : ~IsSpace(s[i])}
  IN  IF keep = {} THEN <<>>
      ELSE SubSeq(s, CHOOSE i \in keep : \A j \in keep : i <= j,
                     CHOOSE i \in keep : \A j \in keep : j <= i)

\* id.slice(0, 8)
ShortLen == 8
slice8(id) == SubSeq(id, 1, Min(ShortLen, Len(id)))

S_marker     == <<"E","x","e","c"," ","a","p","p","r","o","v","a","l"," ","r","e","q","u","i","r","e","d">>
S_idLabel    == <<"I","D",":">>
S_cmdLabel   == <<"C","o","m","m","a","n","d",":">>
S_cwdLabel   == <<"C","W","D",":">>
S_hostLabel  == <<"H","o","s","t",":">>
S_agentLabel == <<"A","g","e","n","t",":">>
S_secLabel   == <<"S","e","c","u","r","i","t","y",":">>
S_askLabel   == <<"A","s","k",":">>
S_expLabel   == <<"E","x","p","i","r","e","s"," ","i","n",":">>
S_unknown    == <<"u","n","k","n","o","w","n">>
S_gateway    == <<"g","a","t","e","w","a","y">>
S_main       == <<"m","a","i","n">>
S_allowlist  == <<"a","l","l","o","w","l","i","s","t">>
S_onmiss     == <<"o","n","-","m","i","s","s">>
S_120s       == <<"1","2","0","s">>
S_allowAlways == <<"a","l","l","o","w","-","a","l","w","a","y","s">>
S_alwaysAllow == <<"a","l","w","a","y","s"," ","a","l","l","o","w">>
S_deny       == <<"d","e","n","y">>
S_denied     == <<"d","e","n","i","e","d">>
S_rejected   == <<"r","e","j","e","c","t","e","d">>
S_allowOnce  == <<"a","l","l","o","w","-","o","n","c","e">>
S_allowed    == <<"a","l","l","o","w","e","d">>
S_approved   == <<"a","p","p","r","o","v","e","d">>

\* ------------------------------------------------------------------------
\* lib/approval-parser.ts
\* ------------------------------------------------------------------------

\* An optional value (null / undefined, or a value) is a sequence of zero
\* or one element.
Null == <<>>
Some(v) == <<v>>

\* Length of the longest run of characters of one class that starts at s.
SpaceRun(text, s) ==
  CHOOSE n \in 0..(Len(text) - s + 1) :
    /\ \A k \in 0..(n - 1) : IsSpace(text[s + k])
    /\ (s + n > Len(text) \/ ~IsSpace(text[s + n]))
HexRun(text, s) ==
  CHOOSE n \in 0..(Len(text) - s + 1) :
    /\ \A k \in 0..(n - 1) : IsHex(text[s + k])
    /\ (s + n > Len(text) \/ ~IsHex(text[s + n]))
LineRun(text, s) ==
  CHOOSE n \in 0..(Len(text) - s + 1) :
    /\ \A k \in 0..(n - 1) : ~IsLineTerminator(text[s + k])
    /\ (s + n > Len(text) \/ IsLineTerminator(text[s + n]))
\* The backtick character (the string syntax has no backtick).
Backtick == "BACKTICK"
TickRun(text, s) ==
  CHOOSE n \in 0..(Len(text) - s + 1) :
    /\ \A k \in 0..(n - 1) : text[s + k] = Backtick
    /\ (s + n > Len(text) \/ text[s + n] # Backtick)

\* RE_APPROVAL_MARKER.test(text)
RE_APPROVAL_MARKER(text) ==
  \E p \in 1..Len(text) : MatchesAtI(text, p, S_marker)

\* text.match(RE_ID)?.[1] : the leftmost "ID:" that is followed, after any
\* white space, by at least one character of [a-f0-9-]; the capture is the
\* whole run of such characters.
IdStart(text, p) == p + Len(S_idLabel) + SpaceRun(text, p + Len(S_idLabel))
\* A faulty match of RE_ID that takes the first "ID:" whatever follows it.
IdAtAnyToken(text, p) == MatchesAtI(text, p, S_idLabel)
IdAt(text, p) ==
  /\ MatchesAtI(text, p, S_idLabel)
  /\ HexRun(text, IdStart(text, p)) > 0
IdPos(text) ==
  CHOOSE p \in 1..Len(text) :
    IdAt(text, p) /\ \A q \in 1..(p - 1) : ~IdAt(text, q)
HexToken(text, s) == SubSeq(text, s, s + HexRun(text, s) - 1)
RE_ID(text) ==
  IF \E p \in 1..Len(text) : IdAt(text, p)
    THEN Some(HexToken(text, IdStart(text, IdPos(text))))
    ELSE Null

\* text.match(/Label:\s*(.+)/i)?.[1] : \s* is greedy and gives white space
\* back until the character after it is one that . matches (any character
\* but a line terminator); the capture runs to the end of that line.
\* FieldOk: with k characters taken by \s* from s, (.+) can start.
FieldOk(text, s, k) ==
  /\ k <= SpaceRun(text, s)
  /\ s + k <= Len(text)
  /\ ~IsLineTerminator(text[s + k])
FieldAt(text, p, label) ==
  /\ MatchesAtI(text, p, label)
  /\ \E k \in 0..(Len(text) - p) : FieldOk(text, p + Len(label), k)
FieldPos(text, label) ==
  CHOOSE p \in 1..Len(text) :
    FieldAt(text, p, label) /\ \A q \in 1..(p - 1) : ~FieldAt(text, q, label)
FieldSkip(text, s) ==
  CHOOSE k \in 0..Len(text) :
    FieldOk(text, s, k) /\ \A j \in (k + 1)..Len(text) : ~FieldOk(text, s, j)
LineFrom(text, s) == SubSeq(text, s, s + LineRun(text, s) - 1)
FieldValue(text, s) == LineFrom(text, s + FieldSkip(text, s))
RE_FIELD(text, label) ==
  IF \E p \in 1..Len(text) : FieldAt(text, p, label)
    THEN Some(FieldValue(text, FieldPos(text, label) + Len(label)))
    ELSE Null

\* RE_COMMAND_BLOCK: Command: \s* BACKTICK{0,3} \n? (.+?) \n? BACKTICK{0,3}
\* (?:\n|$) with the flags i and s.
\* What may follow the capture, from position a.
BlockTail(text, a) ==
  \E n2 \in {0, 1}, b2 \in 0..3 :
    /\ n2 = 1 => (a <= Len(text) /\ text[a] = "\n")
    /\ b2 <= TickRun(text, a + n2)
    /\ \/ a + n2 + b2 = Len(text) + 1
       \/ (a + n2 + b2 <= Len(text) /\ text[a + n2 + b2] = "\n")
\* The lazy capture (.+?) from cs can have length c (the s flag lets .
\* match line terminators too); the shortest such c is taken.
BlockLenOk(text, cs, c) ==
  c >= 1 /\ cs + c - 1 <= Len(text) /\ BlockTail(text, cs + c)
BlockLen(text, cs) ==
  CHOOSE c \in 1..Len(text) :
    BlockLenOk(text, cs, c) /\ \A d \in 1..(c - 1) : ~BlockLenOk(text, cs, d)
\* \s* BACKTICK{0,3} \n? can be matched from s as k, b, n characters with
\* the capture possible after them.
BlockHeadOk(text, s, k, b, n) ==
  /\ k <= SpaceRun(text, s)
  /\ b <= TickRun(text, s + k)
  /\ n = 1 => (s + k + b <= Len(text) /\ text[s + k + b] = "\n")
  /\ \E c \in 1..Len(text) : BlockLenOk(text, s + k + b + n, c)
Heads(text) == (0..Len(text)) \X (0..3) \X {0, 1}
\* Backtracking order: each of the three is greedy, the earlier first.
Prefer(h, g) ==
  \/ h[1] > g[1]
  \/ h[1] = g[1] /\ h[2] > g[2]
  \/ h[1] = g[1] /\ h[2] = g[2] /\ h[3] >= g[3]
BlockHead(text, s) ==
  CHOOSE h \in Heads(text) :
    /\ BlockHeadOk(text, s, h[1], h[2], h[3])
    /\ \A g \in Heads(text) :
         BlockHeadOk(text, s, g[1], g[2], g[3]) => Prefer(h, g)
BlockAt(text, p) ==
  /\ MatchesAtI(text, p, S_cmdLabel)
  /\ \E h \in Heads(text) :
       BlockHeadOk(text, p + Len(S_cmdLabel), h[1], h[2], h[3])
BlockPos(text) ==
  CHOOSE p \in 1..Len(text) :
    BlockAt(text, p) /\ \A q \in 1..(p - 1) : ~BlockAt(text, q)
BlockStart(s, h) == s + h[1] + h[2] + h[3]
BlockCapture(text, cs) == SubSeq(text, cs, cs + BlockLen(text, cs) - 1)
BlockValue(text, s) == BlockCapture(text, BlockStart(s, BlockHead(text, s)))
RE_COMMAND_BLOCK(text) ==
  IF \E p \in 1..Len(text) : BlockAt(text, p)
    THEN Some(BlockValue(text, BlockPos(text) + Len(S_cmdLabel)))
    ELSE Null

\* m?.[1]?.trim() ?? dflt
TrimOr(m, dflt) == IF m = Null THEN dflt ELSE trim(m[1])

\* The command: the block form first and, when that gives nothing or the
\* empty string, the inline form, else "unknown".
ParseCommand(text) ==
  IF RE_COMMAND_BLOCK(text) # Null /\ trim(RE_COMMAND_BLOCK(text)[1]) # <<>>
    THEN trim(RE_COMMAND_BLOCK(text)[1])
    ELSE TrimOr(RE_FIELD(text, S_cmdLabel), S_unknown)

parseApprovalText(text) ==
  IF ~RE_APPROVAL_MARKER(text) THEN Null
  ELSE IF RE_ID(text) = Null \/ trim(RE_ID(text)[1]) = <<>> THEN Null
           ELSE Some([id       |-> trim(RE_ID(text)[1]),
                      command  |-> ParseCommand(text),
                      cwd      |-> TrimOr(RE_FIELD(text, S_cwdLabel), S_unknown),
                      host     |-> TrimOr(RE_FIELD(text, S_hostLabel), S_gateway),
                      agent    |-> TrimOr(RE_FIELD(text, S_agentLabel), S_main),
                      security |-> TrimOr(RE_FIELD(text, S_secLabel), S_allowlist),
                      ask      |-> TrimOr(RE_FIELD(text, S_askLabel), S_onmiss),
                      expires  |-> TrimOr(RE_FIELD(text, S_expLabel), S_120s)])

\* A faulty inferAction that looks for the deny keywords first.
inferActionDenyFirst(text) ==
  LET lower == toLowerCase(text)
  IN  IF \/ Includes(lower, S_deny) \/ Includes(lower, S_denied)
         \/ Includes(lower, S_rejected)
        THEN "deny"
      ELSE IF Includes(lower, S_allowAlways) \/ Includes(lower, S_alwaysAllow)
        THEN "allow-always"
      ELSE "allow-once"

\* inferAction: the first keyword group found in the lower-cased text.
inferAction(text) ==
  LET lower == toLowerCase(text)
  IN  IF Includes(lower, S_allowAlways) \/ Includes(lower, S_alwaysAllow)
        THEN "allow-always"
      ELSE IF \/ Includes(lower, S_deny) \/ Includes(lower, S_denied)
              \/ Includes(lower, S_rejected)
        THEN "deny"
      ELSE IF Includes(lower, S_allowOnce) \/ Includes(lower, S_allowed)
        THEN "allow-once"
      ELSE IF Includes(lower, S_approved) THEN "allow-once"
      ELSE "allow-once"

\* One pending id is referred to by the text: in full or by its first 8
\* characters.
Mentions(text, id) == Includes(text, id) \/ Includes(text, slice8(id))

\* detectApprovalResult: ids is the pending map's keys in iteration order;
\* the first id the text mentions wins.
\* A faulty loop that answers with the last key the text mentions.
LastMention(text, ids) ==
  CHOOSE i \in 1..Len(ids) :
    Mentions(text, ids[i]) /\ \A j \in (i + 1)..Len(ids) : ~Mentions(text, ids[j])
FirstMention(text, ids) ==
  CHOOSE i \in 1..Len(ids) :
    Mentions(text, ids[i]) /\ \A j \in 1..(i - 1) : ~Mentions(text, ids[j])
detectApprovalResult(text, ids) ==
  IF \E i \in 1..Len(ids) : Mentions(text, ids[i])
    THEN Some([id     |-> ids[FirstMention(text, ids)],
               action |-> inferAction(text)])
    ELSE Null

\* ------------------------------------------------------------------------
\* Bounds and the event texts
\* ------------------------------------------------------------------------

\* Number of message_sending events and status commands handled in one
\* behaviour.
MaxEvents == 3
\* The clock runs from 0 to MaxTime; staleTtlMs in the same unit.
MaxTime == 2
StaleTtlMs == 1

\* The texts an event may carry: an approval request, a request with
\* another id, the text a button press on the first one produces, and a
\* message that has nothing to do with approvals.
T_request  == <<"E","x","e","c"," ","a","p","p","r","o","v","a","l"," ","r","e","q","u","i","r","e","d","\n","I","D",":"," ","a","b","1","2","c","d","3","4","-","e","f","\n","C","o","m","m","a","n","d",":"," ","l","s">>
T_other    == <<"E","x","e","c"," ","a","p","p","r","o","v","a","l"," ","r","e","q","u","i","r","e","d","\n","I","D",":"," ","9","f","-","0","7","\n","C","o","m","m","a","n","d",":"," ","r","m">>
T_approve  == <<"/","a","p","p","r","o","v","e"," ","a","b","1","2","c","d","3","4","-","e","f"," ","d","e","n","y">>
T_plain    == <<"h","e","l","l","o">>
Texts == <<T_request, T_other, T_approve, T_plain>>
TextIds == 1..Len(Texts)

\* ctx.channelId of an event: the two channels the plugin serves and one
\* it does not.
Channels == {"telegram", "slack", "discord"}

\* event.content run through the parser, for each text.
ParseTable == [t \in TextIds |-> parseApprovalText(Texts[t])]

\* The ids the store can hold and the orders its keys can come in.
AllIds == {ParseTable[t][1].id : t \in {u \in TextIds : ParseTable[u] # Null}}
KeySeqs ==
  {ks \in UNION {[1..n -> AllIds] : n \in 0..Cardinality(AllIds)} :
     \A i, j \in DOMAIN ks : i # j => ks[i] # ks[j]}

\* event.content run through the detector, for each text and each pending
\* map.
RECURSIVE DetectRows(_)
DetectRows(ps) ==
  IF ps = {} THEN <<>>
  ELSE LET p == CHOOSE q \in ps : TRUE
       IN  (p :> detectApprovalResult(Texts[p[1]], p[2])) @@ DetectRows(ps \ {p})
DetectTable == DetectRows(TextIds \X KeySeqs)

\* The action the detector infers from each text.
ActionTable == [t \in TextIds |-> inferAction(Texts[t])]

\* ------------------------------------------------------------------------
\* State
\* ------------------------------------------------------------------------

VARIABLES
  config,          \* the resolved configuration: plugin version, clients
  pending,         \* ApprovalStore.pending: <<id, entry>> in insertion order
  totalProcessed,  \* ApprovalStore.totalProcessed
  cleanupTimer,    \* ApprovalStore.cleanupTimer: TRUE while the field is set
  timers,          \* the intervals of the store the runtime keeps firing
  now,             \* Date.now()
  inflight,        \* handlers suspended at their await, in arrival order
  calls,           \* the requests the last step issued to the platforms
  delivered,       \* the button messages the platforms accepted
  removed,         \* the entries that left the store, and how
  nextHandle,      \* the next message id / ts a platform hands out
  nEvents,         \* events and status commands handled so far
  step,            \* what the last step did (the hook's answer, the sweep)
  held,            \* what a caller of entries() holds
  probe,           \* a pure function's argument and its answer
  health,          \* the health check that waits for the platform
  storeTimer       \* the store's staleTtlMs and the interval start() set

vars == <<config, pending, totalProcessed, cleanupTimer, timers, now,
          inflight, calls, delivered, removed, nextHandle, nEvents, step,
          held, probe, health, storeTimer>>

\* What resolveConfig came to. v4 resolves the Telegram client or null;
\* v5 a Telegram client, a Slack client, both, or null. A null result is
\* a configuration with no client.
Configs ==
  {c \in [version : {"v4", "v5"}, telegram : BOOLEAN, slack : BOOLEAN] :
     c.version = "v4" => ~c.slack}

\* A faulty register that goes on with a null configuration.
registerAlways(cfg) == TRUE

\* register: with a null configuration it returns before it creates the
\* store and before it installs the service, the command and the hook.
\* TRUE when they are installed.
register(cfg) == cfg.telegram \/ cfg.slack

\* ------------------------------------------------------------------------
\* lib/approval-store.ts, as operators on the pending map
\* ------------------------------------------------------------------------

\* Map: keys in iteration order, lookup, set (an existing key keeps its
\* place), delete.
Keys(m) == [i \in 1..Len(m) |-> m[i][1]]
MapHas(m, id) == \E i \in 1..Len(m) : m[i][1] = id
MapGet(m, id) == m[CHOOSE i \in 1..Len(m) : m[i][1] = id][2]
\* A faulty Map.set that leaves an existing key as it is.
MapSetIfAbsent(m, id, e) ==
  IF MapHas(m, id) THEN m ELSE Append(m, <<id, e>>)
\* A faulty Map.set that appends even when the key is there.
MapSetAppends(m, id, e) == Append(m, <<id, e>>)
MapSet(m, id, e) ==
  IF MapHas(m, id)
    THEN [i \in 1..Len(m) |-> IF m[i][1] = id THEN <<id, e>> ELSE m[i]]
    ELSE Append(m, <<id, e>>)
MapDelete(m, id) == SelectSeq(m, LAMBDA kv : kv[1] # id)

\* add (v4): add(approvalId, messageId, info)
addV4(m, approvalId, messageId, info, t) ==
  MapSet(m, approvalId, [messageId |-> messageId, info |-> info, sentAt |-> t])

\* add (v5): add(id, channel, handle, info), the handle being
\* { messageId } for Telegram and { slackTs } for Slack.
add(m, approvalId, channel, handle, info, t) ==
  MapSet(m, approvalId,
         IF channel = "telegram"
           THEN [channel |-> channel, messageId |-> handle,
                 info |-> info, sentAt |-> t]
           ELSE [channel |-> channel, slackTs |-> handle,
                 info |-> info, sentAt |-> t])

has(m, approvalId) == MapHas(m, approvalId)

get(m, approvalId) ==
  IF MapHas(m, approvalId) THEN Some(MapGet(m, approvalId)) ELSE Null

\* A faulty resolve that returns the entry and counts it but forgets to
\* delete it.
resolveKeepsEntry(m, n, approvalId) ==
  LET entry == get(m, approvalId)
  IN  IF entry # Null
        THEN [entry |-> entry, pending |-> m, totalProcessed |-> n + 1]
        ELSE [entry |-> entry, pending |-> m, totalProcessed |-> n]

\* A faulty resolve that counts a call even when it finds no entry.
resolveCountsMisses(m, n, approvalId) ==
  LET entry == get(m, approvalId)
  IN  IF entry # Null
        THEN [entry |-> entry, pending |-> MapDelete(m, approvalId),
              totalProcessed |-> n + 1]
        ELSE [entry |-> entry, pending |-> m, totalProcessed |-> n + 1]

\* A faulty resolve that counts an entry twice.
resolveCountsTwice(m, n, approvalId) ==
  LET entry == get(m, approvalId)
  IN  IF entry # Null
        THEN [entry |-> entry, pending |-> MapDelete(m, approvalId),
              totalProcessed |-> n + 2]
        ELSE [entry |-> entry, pending |-> m, totalProcessed |-> n]

\* resolve: the entry it returns (or undefined), the map and the counter
\* it leaves.
resolve(m, n, approvalId) ==
  LET entry == get(m, approvalId)
  IN  IF entry # Null
        THEN [entry |-> entry, pending |-> MapDelete(m, approvalId),
              totalProcessed |-> n + 1]
        ELSE [entry |-> entry, pending |-> m, totalProcessed |-> n]

entries(m) == m

pendingCount(m) == Len(m)
processedCount(n) == n

\* A faulty test that takes an entry of age staleTtlMs for stale.
IsStaleAtTtl(entry, t) == t - entry.sentAt >= StaleTtlMs

\* The test of cleanStale's loop.
IsStale(entry, t) == t - entry.sentAt > StaleTtlMs

\* A faulty cleanStale that calls onExpired for every entry it visits,
\* stale or not.
cleanStaleCallsForAll(m, t) ==
  LET stale == SelectSeq(m, LAMBDA kv : IsStale(kv[2], t))
  IN  [expired |-> [i \in 1..Len(m) |-> m[i][2]],
       pending |-> SelectSeq(m, LAMBDA kv : ~IsStale(kv[2], t)),
       removed |-> Len(stale)]

\* cleanStale: the entries it removes, in the order it visits them (each
\* is handed to onExpired), the map it leaves and the number it returns.
cleanStale(m, t) ==
  LET stale == SelectSeq(m, LAMBDA kv : IsStale(kv[2], t))
  IN  [expired |-> [i \in 1..Len(stale) |-> stale[i][2]],
       pending |-> SelectSeq(m, LAMBDA kv : ~IsStale(kv[2], t)),
       removed |-> Len(stale)]

\* The delivery handle of an entry.
HandleOf(entry) ==
  IF "slackTs" \in DOMAIN entry THEN entry.slackTs ELSE entry.messageId
\* The channel an entry was delivered on (v4 delivers on Telegram only).
ChannelOf(entry) ==
  IF "channel" \in DOMAIN entry THEN entry.channel ELSE "telegram"

\* A faulty cleanStale without the try / catch around onExpired: the first
\* callback that throws ends the loop, after the delete of its entry, and
\* the error leaves cleanStale.
RECURSIVE cleanStaleUncaught(_, _, _)
cleanStaleUncaught(m, t, bad) ==
  IF m = <<>>
    THEN [expired |-> <<>>, pending |-> <<>>, removed |-> 0,
          threw |-> FALSE]
    ELSE LET entry == Head(m)[2]
         IN  IF IsStale(entry, t) /\ HandleOf(entry) \in bad
               THEN [expired |-> <<entry>>, pending |-> Tail(m),
                     removed |-> 1, threw |-> TRUE]
               ELSE LET r == cleanStaleUncaught(Tail(m), t, bad)
                    IN  IF IsStale(entry, t)
                          THEN [r EXCEPT !.expired = <<entry>> \o @,
                                         !.removed = @ + 1]
                          ELSE [r EXCEPT !.pending = <<Head(m)>> \o @]

\* cleanStale with an onExpired that throws for the entries whose handle
\* is in bad: the catch around the call swallows the error and the loop
\* goes on. threw tells whether an error leaves cleanStale.
cleanStaleThrowing(m, t, bad) ==
  LET r == cleanStale(m, t)
  IN  [expired |-> r.expired, pending |-> r.pending, removed |-> r.removed,
       threw |-> FALSE]

\* A faulty start without the guard: it sets a new interval over the one
\* the field holds.
startAlwaysSets(field, active) ==
  [cleanupTimer |-> TRUE, timers |-> active + 1, set |-> TRUE]

\* start: field is this.cleanupTimer, active the intervals the runtime
\* fires. A timer that is set stays, and no other is set; set tells
\* whether the call reached setInterval.
start(field, active) ==
  IF field
    THEN [cleanupTimer |-> field, timers |-> active, set |-> FALSE]
    ELSE [cleanupTimer |-> TRUE, timers |-> active + 1, set |-> TRUE]

\* A faulty stop that forgets the field and leaves the interval running.
stopKeepsInterval(field, active) ==
  [cleanupTimer |-> FALSE, timers |-> active, cleared |-> FALSE]

\* stop: clearInterval of the timer the field holds, if it holds one;
\* cleared tells whether the call reached clearInterval.
stop(field, active) ==
  IF field
    THEN [cleanupTimer |-> FALSE, timers |-> active - 1, cleared |-> TRUE]
    ELSE [cleanupTimer |-> field, timers |-> active, cleared |-> FALSE]

\* entries() returns this.pending itself: what the caller holds is the
\* store's own Map, typed ReadonlyMap for the compiler only.
entriesAliases == TRUE

\* ------------------------------------------------------------------------
\* index.ts: the coordinator
\* ------------------------------------------------------------------------

\* A faulty body that carries a reply_markup whether one is given or not.
tgBodyAlwaysMarkup(method, replyMarkup) ==
  {"chat_id", "text", "parse_mode", "reply_markup"}
    \cup (IF method = "editMessageText" THEN {"message_id"} ELSE {})

\* TelegramApi.sendMessage / editMessageText: the keys of the body;
\* reply_markup is there only when the caller gives one.
tgBody(method, replyMarkup) ==
  {"chat_id", "text", "parse_mode"}
    \cup (IF method = "editMessageText" THEN {"message_id"} ELSE {})
    \cup (IF replyMarkup # Null THEN {"reply_markup"} ELSE {})

\* formatSlackApprovalRequest / Resolved / Expired: the types of the
\* blocks; the request ends with the actions block of the three buttons.
slackBlocks(kind) ==
  {"header", "section", "context"}
    \cup (IF kind = "request" THEN {"actions"} ELSE {})

\* The requests to the platforms: sendMessage / postMessage with the
\* rendered request, editMessageText / updateMessage with the rendered
\* result or expiry.
\* parts is what the request is made of: the keys of the body of a
\* Telegram call, the types of the blocks of a Slack call.
RequestCall(channel, info) ==
  [kind |-> "request", channel |-> channel, info |-> info,
   parts |-> IF channel = "telegram"
               THEN tgBody("sendMessage", Some("buildApprovalKeyboard"))
               ELSE slackBlocks("request")]
ResolvedCall(channel, handle, info, action) ==
  [kind |-> "resolved", channel |-> channel, handle |-> handle,
   info |-> info, action |-> action,
   parts |-> IF channel = "telegram"
               THEN tgBody("editMessageText", Null)
               ELSE slackBlocks("resolved")]
ExpiredCall(channel, handle, info) ==
  [kind |-> "expired", channel |-> channel, handle |-> handle, info |-> info,
   parts |-> IF channel = "telegram"
               THEN tgBody("editMessageText", Null)
               ELSE slackBlocks("expired")]

\* A handler suspended at an await, with the locals it uses afterwards.
Suspended(handler, pc, ev, info) ==
  [handler |-> handler, pc |-> pc, ev |-> ev, info |-> info]

\* What a step did. op tells the step: "event" (a handler ran up to its
\* await or its return), "send" and "edit" (a handler resumed after its
\* delivery call, its update call), "sweep", "idle" (anything else).
\* decision is the hook's answer when a handler returned in this step:
\* "suppress" for { cancel: true }, "pass" for undefined, and "none" when
\* no handler returned. resolved is what store.resolve returned, handle
\* what the delivery call returned, expired the entries handed to
\* onExpired.
StepRec(op, ev, decision, why, resolved, handle, expired) ==
  [op |-> op, ev |-> ev, decision |-> decision, why |-> why,
   resolved |-> resolved, handle |-> handle, expired |-> expired]
NoEvent == [channel |-> "", text |-> 0]
Idle == StepRec("idle", NoEvent, "none", "", Null, Null, <<>>)

\* How an entry left the store.
Left(entry, by) ==
  [id |-> entry.info.id, handle |-> HandleOf(entry), by |-> by]

\* A faulty return that answers { cancel: true } whatever the handler
\* decided.
ReturnSuppresses(ev, decision, why, resolved) ==
  /\ calls' = <<>>
  /\ inflight' = inflight
  /\ step' = StepRec("event", ev, "suppress", why, resolved, Null, <<>>)

\* A handler returns without having awaited anything.
Return(ev, decision, why, resolved) ==
  /\ calls' = <<>>
  /\ inflight' = inflight
  /\ step' = StepRec("event", ev, decision, why, resolved, Null, <<>>)

\* A handler issues a call to the platform and waits for its result.
Await(handler, pc, ev, info, call, resolved) ==
  /\ calls' = <<call>>
  /\ inflight' = Append(inflight, Suspended(handler, pc, ev, info))
  /\ step' = StepRec("event", ev, "none", pc, resolved, Null, <<>>)

\* The v4 message_sending hook, after its channel test, up to its first
\* await or its return.
hookV4(ev) ==
  LET resolution == DetectTable[<<ev.text, Keys(entries(pending))>>]
      info       == ParseTable[ev.text]
  IN  IF resolution # Null
        THEN LET r     == resolve(pending, totalProcessed, resolution[1].id)
                 entry == r.entry
             IN  /\ pending' = r.pending
                 /\ totalProcessed' = r.totalProcessed
                 /\ IF entry # Null
                      THEN /\ removed' = removed \cup {Left(entry[1], "resolve")}
                           /\ Await("hookV4", "awaitEdit", ev, Null,
                                    ResolvedCall("telegram", entry[1].messageId,
                                                 entry[1].info,
                                                 resolution[1].action),
                                    entry)
                      ELSE /\ removed' = removed
                           /\ Return(ev, "pass", "resolved", entry)
        ELSE /\ UNCHANGED <<pending, totalProcessed, removed>>
             /\ IF info = Null
                  THEN Return(ev, "pass", "notApproval", Null)
                ELSE IF has(pending, info[1].id)
                  THEN Return(ev, "suppress", "duplicate", Null)
                ELSE Await("hookV4", "awaitSend", ev, info,
                           RequestCall("telegram", info[1]), Null)

\* handleTelegram (v5) up to its first await or its return.
handleTelegram(ev) ==
  LET resolution == DetectTable[<<ev.text, Keys(entries(pending))>>]
      info       == ParseTable[ev.text]
  IN  IF resolution # Null
        THEN LET r     == resolve(pending, totalProcessed, resolution[1].id)
                 entry == r.entry
             IN  /\ pending' = r.pending
                 /\ totalProcessed' = r.totalProcessed
                 /\ removed' = removed \cup
                      (IF entry # Null THEN {Left(entry[1], "resolve")} ELSE {})
                 /\ IF entry # Null /\ entry[1].channel = "telegram"
                      THEN Await("handleTelegram", "awaitEdit", ev, Null,
                                 ResolvedCall("telegram", entry[1].messageId,
                                              entry[1].info,
                                              resolution[1].action),
                                 entry)
                      ELSE Return(ev, "pass", "resolved", entry)
        ELSE /\ UNCHANGED <<pending, totalProcessed, removed>>
             /\ IF info = Null
                  THEN Return(ev, "pass", "notApproval", Null)
                ELSE IF has(pending, info[1].id)
                  THEN Return(ev, "suppress", "duplicate", Null)
                ELSE Await("handleTelegram", "awaitSend", ev, info,
                           RequestCall("telegram", info[1]), Null)

\* handleSlack (v5) up to its first await or its return.
handleSlack(ev) ==
  LET resolution == DetectTable[<<ev.text, Keys(entries(pending))>>]
      info       == ParseTable[ev.text]
  IN  IF resolution # Null
        THEN LET r     == resolve(pending, totalProcessed, resolution[1].id)
                 entry == r.entry
             IN  /\ pending' = r.pending
                 /\ totalProcessed' = r.totalProcessed
                 /\ removed' = removed \cup
                      (IF entry # Null THEN {Left(entry[1], "resolve")} ELSE {})
                 /\ IF entry # Null /\ entry[1].channel = "slack"
                      THEN Await("handleSlack", "awaitEdit", ev, Null,
                                 ResolvedCall("slack", entry[1].slackTs,
                                              entry[1].info,
                                              resolution[1].action),
                                 entry)
                      ELSE Return(ev, "pass", "resolved", entry)
        ELSE /\ UNCHANGED <<pending, totalProcessed, removed>>
             /\ IF info = Null
                  THEN Return(ev, "pass", "notApproval", Null)
                ELSE IF has(pending, info[1].id)
                  THEN Return(ev, "suppress", "duplicate", Null)
                ELSE Await("handleSlack", "awaitSend", ev, info,
                           RequestCall("slack", info[1]), Null)

\* A faulty hook without the channel tests: every event goes to the
\* Telegram handler.
OnMessageSendingAnyChannel(ev) ==
  IF config.version = "v4" THEN hookV4(ev) ELSE handleTelegram(ev)

\* The hook as registered: v4 handles Telegram only; v5 dispatches on the
\* channel and on the clients that are configured.
OnMessageSending(ev) ==
  IF config.version = "v4"
    THEN IF ev.channel # "telegram"
           THEN /\ UNCHANGED <<pending, totalProcessed, removed>>
                /\ Return(ev, "pass", "ignored", Null)
           ELSE hookV4(ev)
  ELSE IF ev.channel = "telegram" /\ config.telegram
    THEN handleTelegram(ev)
  ELSE IF ev.channel = "slack" /\ config.slack
    THEN handleSlack(ev)
  ELSE /\ UNCHANGED <<pending, totalProcessed, removed>>
       /\ Return(ev, "pass", "ignored", Null)

\* The hook handles the events of this channel.
Configured(ch) ==
  IF config.version = "v4" THEN ch = "telegram" /\ config.telegram
  ELSE IF ch = "telegram" THEN config.telegram
  ELSE ch = "slack" /\ config.slack

\* The store entry a handler adds once its delivery call returned a handle.
AddAfterSend(h, handle) ==
  IF h.handler = "hookV4"
    THEN addV4(pending, h.info[1].id, handle, h.info[1], now)
  ELSE IF h.handler = "handleTelegram"
    THEN add(pending, h.info[1].id, "telegram", handle, h.info[1], now)
  ELSE add(pending, h.info[1].id, "slack", handle, h.info[1], now)

Without(q, i) == [k \in 1..(Len(q) - 1) |-> IF k < i THEN q[k] ELSE q[k + 1]]

\* A faulty resumption that tracks the approval before it looks at the
\* result of the delivery call.
AfterSendAddsFirst(i, result) ==
  LET h == inflight[i]
  IN  /\ inflight' = Without(inflight, i)
      /\ calls' = <<>>
      /\ pending' = AddAfterSend(h, IF result = Null THEN 0 ELSE result[1])
      /\ IF result = Null
           THEN /\ UNCHANGED delivered
                /\ step' = StepRec("send", h.ev, "pass", "sendFailed",
                                   Null, result, <<>>)
           ELSE /\ delivered' = delivered \cup
                     {[id |-> h.info[1].id, channel |-> h.ev.channel,
                       handle |-> result[1]]}
                /\ step' = StepRec("send", h.ev, "suppress", "sent",
                                   Null, result, <<>>)
      /\ UNCHANGED <<totalProcessed, removed>>

\* A faulty resumption that cancels the event whatever the delivery call
\* returned.
AfterSendAlwaysCancels(i, result) ==
  LET h == inflight[i]
  IN  /\ inflight' = Without(inflight, i)
      /\ calls' = <<>>
      /\ IF result = Null
           THEN /\ UNCHANGED <<pending, delivered>>
                /\ step' = StepRec("send", h.ev, "suppress", "sendFailed",
                                   Null, result, <<>>)
           ELSE /\ pending' = AddAfterSend(h, result[1])
                /\ delivered' = delivered \cup
                     {[id |-> h.info[1].id, channel |-> h.ev.channel,
                       handle |-> result[1]]}
                /\ step' = StepRec("send", h.ev, "suppress", "sent",
                                   Null, result, <<>>)
      /\ UNCHANGED <<totalProcessed, removed>>

\* A handler resumes after sendMessage / postMessage: result is Null (the
\* call failed: error response, network error, timeout) or the handle.
AfterSend(i, result) ==
  LET h == inflight[i]
  IN  /\ inflight' = Without(inflight, i)
      /\ calls' = <<>>
      /\ IF result = Null
           THEN /\ UNCHANGED <<pending, delivered>>
                /\ step' = StepRec("send", h.ev, "pass", "sendFailed",
                                   Null, result, <<>>)
           ELSE /\ pending' = AddAfterSend(h, result[1])
                /\ delivered' = delivered \cup
                     {[id |-> h.info[1].id, channel |-> h.ev.channel,
                       handle |-> result[1]]}
                /\ step' = StepRec("send", h.ev, "suppress", "sent",
                                   Null, result, <<>>)
      /\ UNCHANGED <<totalProcessed, removed>>

\* A faulty resumption that cancels the event once the update went
\* through.
AfterEditCancels(i, ok) ==
  LET h == inflight[i]
  IN  /\ inflight' = Without(inflight, i)
      /\ calls' = <<>>
      /\ step' = StepRec("edit", h.ev, IF ok THEN "suppress" ELSE "pass",
                         IF ok THEN "edited" ELSE "editFailed",
                         Null, Null, <<>>)
      /\ UNCHANGED <<pending, totalProcessed, delivered, removed>>

\* A handler resumes after editMessageText / updateMessage and returns.
AfterEdit(i, ok) ==
  LET h == inflight[i]
  IN  /\ inflight' = Without(inflight, i)
      /\ calls' = <<>>
      /\ step' = StepRec("edit", h.ev, "pass",
                         IF ok THEN "edited" ELSE "editFailed",
                         Null, Null, <<>>)
      /\ UNCHANGED <<pending, totalProcessed, delivered, removed>>

\* What a request to the platform can come to: a response with ok, a
\* response without ok, fetch rejecting, and the abort after
\* REQUEST_TIMEOUT_MS (which makes fetch reject).
FetchOutcomes == {"success", "errorResponse", "networkError", "timeout"}

\* A faulty fetch wrapper without the catch: a rejection of fetch reaches
\* the caller.
tgFetchThrows(outcome) ==
  [ok |-> outcome = "success", threw |-> outcome \in {"networkError", "timeout"}]

\* tgFetch / slackFetch: one request; the response body as parsed, or
\* { ok: false } from the catch block. It never throws.
tgFetch(outcome) ==
  [ok |-> outcome = "success", threw |-> FALSE]

\* A handler whose awaited call threw: the promise the hook returned
\* rejects.
Rejected(i, op) ==
  /\ inflight' = Without(inflight, i)
  /\ calls' = <<>>
  /\ step' = StepRec(op, inflight[i].ev, "rejected", "threw", Null, Null, <<>>)
  /\ UNCHANGED <<pending, totalProcessed, delivered, removed>>

\* The onExpired callback given to the store: an edit of the entry's
\* message, not awaited. The calls it issues.
onExpired(entry) ==
  IF config.version = "v4"
    THEN <<ExpiredCall("telegram", entry.messageId, entry.info)>>
  ELSE IF entry.channel = "telegram" /\ config.telegram
    THEN <<ExpiredCall("telegram", entry.messageId, entry.info)>>
  ELSE IF entry.channel = "slack" /\ config.slack
    THEN <<ExpiredCall("slack", entry.slackTs, entry.info)>>
  ELSE <<>>

\* The calls of onExpired over the entries cleanStale hands to it.
RECURSIVE ExpiredCalls(_)
ExpiredCalls(es) ==
  IF es = <<>> THEN <<>> ELSE onExpired(Head(es)) \o ExpiredCalls(Tail(es))

\* ------------------------------------------------------------------------
\* Actions
\* ------------------------------------------------------------------------

Init ==
  /\ config \in Configs
  /\ pending = <<>>
  /\ totalProcessed = 0
  /\ cleanupTimer = FALSE
  /\ timers = 0
  /\ now = 0
  /\ inflight = <<>>
  /\ calls = <<>>
  /\ delivered = {}
  /\ removed = {}
  /\ nextHandle = 1
  /\ nEvents = 0
  /\ step = Idle
  /\ held = Null
  /\ probe = Null
  /\ health = Null
  /\ storeTimer = Null

\* The events of a behaviour: every text on the channels the plugin
\* serves; on the other channel an approval request and the text that
\* names its id.
Events ==
  {ev \in [channel : Channels, text : TextIds] :
     ev.channel = "discord" => Texts[ev.text] \in {T_request, T_approve}}

\* The gateway is about to send a message: the hook runs, if register
\* installed one.
Event ==
  /\ nEvents < MaxEvents
  /\ \E ev \in Events :
       IF register(config)
         THEN OnMessageSending(ev)
         ELSE /\ UNCHANGED <<pending, totalProcessed, removed>>
              /\ Return(ev, "pass", "noHook", Null)
  /\ nEvents' = nEvents + 1
  /\ UNCHANGED <<config, cleanupTimer, timers, now, delivered, nextHandle,
                 held, probe, health, storeTimer>>

\* A delivery call comes back with a new message id / ts.
SendOk ==
  /\ \E i \in 1..Len(inflight) :
       /\ inflight[i].pc = "awaitSend"
       /\ tgFetch("success").ok
       /\ AfterSend(i, Some(nextHandle))
  /\ nextHandle' = nextHandle + 1
  /\ UNCHANGED <<config, cleanupTimer, timers, now, nEvents, held, probe, health,
                 storeTimer>>

\* A delivery call fails: sendMessage / postMessage return null.
SendFail ==
  /\ \E i \in 1..Len(inflight),
        r \in {tgFetch(o) : o \in FetchOutcomes \ {"success"}} :
       /\ inflight[i].pc = "awaitSend"
       /\ IF r.threw THEN Rejected(i, "send")
          ELSE AfterSend(i, IF r.ok THEN Some(nextHandle) ELSE Null)
  /\ UNCHANGED <<config, cleanupTimer, timers, now, nEvents, nextHandle,
                 held, probe, health, storeTimer>>

\* An update call comes back, with success or not.
EditDone ==
  /\ \E i \in 1..Len(inflight), r \in {tgFetch(o) : o \in FetchOutcomes} :
       /\ inflight[i].pc = "awaitEdit"
       /\ IF r.threw THEN Rejected(i, "edit") ELSE AfterEdit(i, r.ok)
  /\ UNCHANGED <<config, cleanupTimer, timers, now, nEvents, nextHandle,
                 held, probe, health, storeTimer>>

\* ApprovalStore.start, called by the cleanup service: a timer that is
\* set stays.
Start ==
  /\ register(config)
  /\ LET r == start(cleanupTimer, timers)
     IN  /\ cleanupTimer' = r.cleanupTimer
         /\ timers' = r.timers
  /\ calls' = <<>>
  /\ step' = StepRec("start", NoEvent, "none", "", Null, Null, <<>>)
  /\ UNCHANGED <<config, pending, totalProcessed, now, inflight,
                 delivered, removed, nextHandle, nEvents, held, probe,
                 health, storeTimer>>

\* ApprovalStore.stop
Stop ==
  /\ register(config)
  /\ LET r == stop(cleanupTimer, timers)
     IN  /\ cleanupTimer' = r.cleanupTimer
         /\ timers' = r.timers
  /\ calls' = <<>>
  /\ step' = StepRec("stop", NoEvent, "none", "", Null, Null, <<>>)
  /\ UNCHANGED <<config, pending, totalProcessed, now, inflight,
                 delivered, removed, nextHandle, nEvents, held, probe,
                 health, storeTimer>>

\* The interval fires: cleanStale, with onExpired for each removed entry.
Sweep ==
  /\ timers > 0
  /\ LET r == cleanStale(pending, now)
     IN  /\ pending' = r.pending
         /\ calls' = ExpiredCalls(r.expired)
         /\ removed' = removed \cup
              {Left(r.expired[i], "sweep") : i \in 1..Len(r.expired)}
         /\ step' = StepRec("sweep", NoEvent, "none", "", Null, Null, r.expired)
  /\ UNCHANGED <<config, totalProcessed, cleanupTimer, timers, now,
                 inflight, delivered, nextHandle, nEvents, held, probe,
                 health, storeTimer>>

\* Time passes.
Tick ==
  /\ now < MaxTime
  /\ now' = now + 1
  /\ calls' = <<>>
  /\ step' = Idle
  /\ UNCHANGED <<config, pending, totalProcessed, cleanupTimer, timers,
                 inflight, delivered, removed, nextHandle, nEvents, held,
                 probe, health, storeTimer>>

\* The health object runHealthCheck builds before its first await, with
\* the store's counts read at that point; ok is whether a platform was
\* reachable so far, pc the connectivity call it then waits for.
runHealthCheckNoPending(cfg, m, n) ==
  [ok |-> FALSE,
   store |-> [pending |-> 0, totalProcessed |-> processedCount(n)],
   pc |-> IF cfg.telegram THEN "getMe" ELSE "authTest"]
runHealthCheck(cfg, m, n) ==
  [ok |-> FALSE,
   store |-> [pending |-> pendingCount(m),
              totalProcessed |-> processedCount(n)],
   pc |-> IF cfg.telegram THEN "getMe" ELSE "authTest"]

\* The /approvalstatus command is invoked: runHealthCheck runs up to its
\* first await.
Status ==
  /\ register(config)
  /\ nEvents < MaxEvents
  /\ health = Null
  /\ nEvents' = nEvents + 1
  /\ health' = Some(runHealthCheck(config, pending, totalProcessed))
  /\ calls' = <<>>
  /\ step' = StepRec("status", NoEvent, "none", "", Null, Null, <<>>)
  /\ UNCHANGED <<config, pending, totalProcessed, cleanupTimer, timers, now,
                 inflight, delivered, removed, nextHandle, held, probe,
                 storeTimer>>

\* A connectivity call of the health check comes back: getMe, then (v5,
\* with a Slack client) authTest; after the last one the handler returns
\* the health object.
StatusDone ==
  /\ health # Null
  /\ \E reachable \in BOOLEAN :
       LET seen == [health[1] EXCEPT !.ok = @ \/ reachable]
       IN  IF seen.pc = "getMe" /\ config.slack
             THEN /\ health' = Some([seen EXCEPT !.pc = "authTest"])
                  /\ step' = StepRec("statusProbe", NoEvent, "none", "",
                                     Null, Null, <<>>)
             ELSE /\ health' = Null
                  /\ step' = ("report" :> [seen EXCEPT !.pc = "returned"]) @@
                             StepRec("statusDone", NoEvent, "none", "",
                                     Null, Null, <<>>)
  /\ calls' = <<>>
  /\ UNCHANGED <<config, pending, totalProcessed, cleanupTimer, timers, now,
                 inflight, delivered, removed, nextHandle, nEvents, held,
                 probe, storeTimer>>

Next ==
  \/ Event \/ SendOk \/ SendFail \/ EditDone
  \/ Start \/ Stop \/ Sweep \/ Tick

Spec == Init /\ [][Next]_vars

\* The plugin with its /approvalstatus command in use.
StatusNext == Next \/ Status \/ StatusDone

StatusSpec == Init /\ [][StatusNext]_vars

\* ------------------------------------------------------------------------
\* The store on its own: a caller drives ApprovalStore's methods in any
\* order, as the store's tests do
\* ------------------------------------------------------------------------

\* Calls of add in one behaviour; each brings a new message id.
MaxAdds == 3

\* The request infos a caller adds.
Infos == {ParseTable[t][1] : t \in {u \in TextIds : ParseTable[u] # Null}}

\* What a call of a store method did: the method, its arguments, what it
\* returned (for start and stop: whether it reached setInterval,
\* clearInterval), the entries handed to onExpired, the handles for which
\* onExpired throws, and whether the call itself threw.
Called(op, args, ret, expired, bad, threw) ==
  [op |-> op, args |-> args, ret |-> ret, expired |-> expired,
   bad |-> bad, threw |-> threw]

StoreInit ==
  /\ config = [version |-> "v4", telegram |-> TRUE, slack |-> FALSE]
  /\ pending = <<>>
  /\ totalProcessed = 0
  /\ cleanupTimer = FALSE
  /\ timers = 0
  /\ now = 0
  /\ inflight = <<>>
  /\ calls = <<>>
  /\ delivered = {}
  /\ removed = {}
  /\ nextHandle = 1
  /\ nEvents = 0
  /\ step = Called("new", <<>>, Null, <<>>, {}, FALSE)
  /\ held = Null
  /\ probe = Null
  /\ health = Null
  /\ storeTimer = Null

\* store.add(id, messageId, info)
CallAdd ==
  /\ nextHandle <= MaxAdds
  /\ \E id \in AllIds, info \in Infos :
       /\ pending' = addV4(pending, id, nextHandle, info, now)
       /\ step' = Called("add", <<id, nextHandle, info>>, Null, <<>>, {},
                         FALSE)
  /\ nextHandle' = nextHandle + 1
  /\ UNCHANGED <<config, totalProcessed, cleanupTimer, timers, now, inflight,
                 calls, delivered, removed, nEvents, held, probe, health,
                 storeTimer>>

\* store.resolve(id)
CallResolve ==
  /\ \E id \in AllIds :
       LET r == resolve(pending, totalProcessed, id)
       IN  /\ pending' = r.pending
           /\ totalProcessed' = r.totalProcessed
           /\ step' = Called("resolve", <<id>>, r.entry, <<>>, {}, FALSE)
  /\ UNCHANGED <<config, cleanupTimer, timers, now, inflight, calls,
                 delivered, removed, nextHandle, nEvents, held, probe,
                 health, storeTimer>>

\* store.has(id)
CallHas ==
  /\ \E id \in AllIds :
       step' = Called("has", <<id>>, has(pending, id), <<>>, {}, FALSE)
  /\ UNCHANGED <<config, pending, totalProcessed, cleanupTimer, timers, now,
                 inflight, calls, delivered, removed, nextHandle, nEvents,
                 held, probe, health, storeTimer>>

\* store.get(id)
CallGet ==
  /\ \E id \in AllIds :
       step' = Called("get", <<id>>, get(pending, id), <<>>, {}, FALSE)
  /\ UNCHANGED <<config, pending, totalProcessed, cleanupTimer, timers, now,
                 inflight, calls, delivered, removed, nextHandle, nEvents,
                 held, probe, health, storeTimer>>

\* store.entries(): the caller keeps what it returns.
CallEntries ==
  /\ step' = Called("entries", <<>>, entries(pending), <<>>, {}, FALSE)
  /\ held' = Some(IF entriesAliases THEN "this.pending" ELSE "copy")
  /\ UNCHANGED <<config, pending, totalProcessed, cleanupTimer, timers, now,
                 inflight, calls, delivered, removed, nextHandle, nEvents,
                 probe, health, storeTimer>>

\* The holder of the value entries() returned calls delete on it (in
\* JavaScript, or in TypeScript after a cast to Map): the object is the
\* store's Map when entries() returned this.pending.
HolderDeletes ==
  /\ held # Null
  /\ \E id \in AllIds :
       /\ pending' = IF held[1] = "this.pending"
                       THEN MapDelete(pending, id) ELSE pending
       /\ step' = Called("holder", <<id>>, Null, <<>>, {}, FALSE)
  /\ UNCHANGED <<config, totalProcessed, cleanupTimer, timers, now, inflight,
                 calls, delivered, removed, nextHandle, nEvents, held, probe,
                 health, storeTimer>>

\* store.cleanStale(), with an onExpired that throws for some entries.
CallCleanStale ==
  /\ \E bad \in SUBSET {HandleOf(pending[i][2]) : i \in 1..Len(pending)} :
       LET r == cleanStaleThrowing(pending, now, bad)
       IN  /\ pending' = r.pending
           /\ step' = Called("cleanStale", <<>>, r.removed, r.expired,
                             bad, r.threw)
  /\ UNCHANGED <<config, totalProcessed, cleanupTimer, timers, now, inflight,
                 calls, delivered, removed, nextHandle, nEvents, held, probe,
                 health, storeTimer>>

\* store.start()
CallStart ==
  /\ LET r == start(cleanupTimer, timers)
     IN  /\ cleanupTimer' = r.cleanupTimer
         /\ timers' = r.timers
         /\ step' = Called("start", <<>>, r.set, <<>>, {}, FALSE)
  /\ UNCHANGED <<config, pending, totalProcessed, now, inflight, calls,
                 delivered, removed, nextHandle, nEvents, held, probe,
                 health, storeTimer>>

\* store.stop()
CallStop ==
  /\ LET r == stop(cleanupTimer, timers)
     IN  /\ cleanupTimer' = r.cleanupTimer
         /\ timers' = r.timers
         /\ step' = Called("stop", <<>>, r.cleared, <<>>, {}, FALSE)
  /\ UNCHANGED <<config, pending, totalProcessed, now, inflight, calls,
                 delivered, removed, nextHandle, nEvents, held, probe,
                 health, storeTimer>>

\* Time passes between two calls.
StoreTick ==
  /\ now < MaxTime
  /\ now' = now + 1
  /\ step' = Called("tick", <<>>, Null, <<>>, {}, FALSE)
  /\ UNCHANGED <<config, pending, totalProcessed, cleanupTimer, timers,
                 inflight, calls, delivered, removed, nextHandle, nEvents,
                 held, probe, health, storeTimer>>

StoreNext ==
  CallAdd \/ CallResolve \/ CallHas \/ CallGet \/ CallEntries \/
  HolderDeletes \/ CallCleanStale \/ CallStart \/ CallStop \/ StoreTick

StoreSpec == StoreInit /\ [][StoreNext]_vars

\* ------------------------------------------------------------------------
\* The detector on its own: detectApprovalResult applied to a text and
\* the keys of a pending map
\* ------------------------------------------------------------------------

\* Pending ids: two that share their first eight characters, one shorter
\* than eight.
D_first  == <<"a","b","1","2","c","d","3","4","-","e","f">>
D_second == <<"a","b","1","2","c","d","3","4","-","0","0">>
D_short  == <<"9","f","-","0","7">>
DetectIds == {D_first, D_second, D_short}

\* Outgoing texts: a full id, the eight characters two ids share, the
\* full form of the second of them, seven characters only, the short id,
\* nothing of an id, the empty text.
D_texts ==
  <<T_approve,
    <<"a","p","p","r","o","v","e","d"," ","a","b","1","2","c","d","3","4">>,
    <<"a","b","1","2","c","d","3","4","-","0","0"," ","d","e","n","i","e","d">>,
    <<"d","e","n","y"," ","a","b","1","2","c","d","3">>,
    <<"9","f","-","0","7"," ","a","l","l","o","w","-","o","n","c","e">>,
    T_plain,
    <<>>>>

\* The key sequences a pending map over DetectIds can have.
DetectKeySeqs ==
  UNION {{ks \in [1..n -> DetectIds] :
            \A i, j \in 1..n : i # j => ks[i] # ks[j]} :
         n \in 0..Cardinality(DetectIds)}

DetectInit ==
  /\ config = [version |-> "v4", telegram |-> TRUE, slack |-> FALSE]
  /\ pending = <<>>
  /\ totalProcessed = 0
  /\ cleanupTimer = FALSE
  /\ timers = 0
  /\ now = 0
  /\ inflight = <<>>
  /\ calls = <<>>
  /\ delivered = {}
  /\ removed = {}
  /\ nextHandle = 1
  /\ nEvents = 0
  /\ step = Idle
  /\ health = Null
  /\ storeTimer = Null
  /\ held = Null
  /\ probe \in {Some([text |-> D_texts[t], ids |-> ks, called |-> FALSE,
                      result |-> Null]) :
                  t \in DOMAIN D_texts, ks \in DetectKeySeqs}

\* detectApprovalResult(text, store.entries())
Detect ==
  /\ probe # Null
  /\ ~probe[1].called
  /\ probe' = Some([probe[1] EXCEPT
                      !.called = TRUE,
                      !.result = detectApprovalResult(probe[1].text,
                                                      probe[1].ids)])
  /\ UNCHANGED <<config, pending, totalProcessed, cleanupTimer, timers, now,
                 inflight, calls, delivered, removed, nextHandle, nEvents,
                 step, held, health, storeTimer>>

DetectNext == Detect

DetectSpec == DetectInit /\ [][DetectNext]_vars

\* ------------------------------------------------------------------------
\* The pure functions on their own: each is applied once to an argument
\* drawn from a table
\* ------------------------------------------------------------------------

\* Outgoing texts, each as its lines: 1-12 carry the action keywords (13
\* is the empty text), 14-27 are approval requests, whole, partial,
\* permuted, malformed, with a label inside a value, with a fenced
\* command.
PureLines ==
  <<
    \* 1
    <<<<"a","l","l","o","w","-","a","l","w","a","y","s">>>>,
    \* 2
    <<<<"A","l","w","a","y","s"," ","A","l","l","o","w"," ","i","t">>>>,
    \* 3
    <<<<"d","e","n","y"," ","a","l","l","o","w","-","a","l","w","a","y","s">>>>,
    \* 4
    <<<<"r","e","q","u","e","s","t"," ","d","e","n","i","e","d">>>>,
    \* 5
    <<<<"R","E","J","E","C","T","E","D">>>>,
    \* 6
    <<<<"d","e","n","y">>>>,
    \* 7
    <<<<"a","l","l","o","w","-","o","n","c","e">>>>,
    \* 8
    <<<<"a","l","l","o","w","e","d">>>>,
    \* 9
    <<<<"a","p","p","r","o","v","e","d">>>>,
    \* 10
    <<<<"h","e","l","l","o">>>>,
    \* 11
    <<<<"a","l","l","o","w","e","d",","," ","n","o","t"," ","d","e","n","i","e","d">>>>,
    \* 12
    <<<<"a","l","w","a","y","s"," "," ","a","l","l","o","w">>>>,
    \* 13
    <<>>,
    \* 14
    <<<<"E","x","e","c"," ","a","p","p","r","o","v","a","l"," ","r","e","q","u","i","r","e","d">>,
      <<"I","D",":"," ","7","f","-","3">>,
      <<"C","o","m","m","a","n","d",":"," ","l","s"," ","-","a">>,
      <<"C","W","D",":"," ","/","t"," ">>,
      <<"H","o","s","t",":"," ","b","o","x">>,
      <<"A","g","e","n","t",":"," ","d","e","v">>,
      <<"S","e","c","u","r","i","t","y",":"," ","f","u","l","l">>,
      <<"A","s","k",":"," ","o","f","f">>,
      <<"E","x","p","i","r","e","s"," ","i","n",":"," ","6","0","s">>>>,
    \* 15
    <<<<"E","x","e","c"," ","a","p","p","r","o","v","a","l"," ","r","e","q","u","i","r","e","d">>,
      <<"E","x","p","i","r","e","s"," ","i","n",":"," ","6","0","s">>,
      <<"A","s","k",":"," ","o","f","f">>,
      <<"S","e","c","u","r","i","t","y",":"," ","f","u","l","l">>,
      <<"A","g","e","n","t",":"," ","d","e","v">>,
      <<"H","o","s","t",":"," ","b","o","x">>,
      <<"C","W","D",":"," ","/","t"," ">>,
      <<"C","o","m","m","a","n","d",":"," ","l","s"," ","-","a">>,
      <<"I","D",":"," ","7","f","-","3">>>>,
    \* 16
    <<<<"e","x","e","c"," ","A","P","P","R","O","V","A","L"," ","r","e","q","u","i","r","e","d">>,
      <<"i","d",":"," ","A","B","-","1","2">>>>,
    \* 17
    <<<<"E","x","e","c"," ","a","p","p","r","o","v","a","l"," ","r","e","q","u","i","r","e","d">>,
      <<"C","o","m","m","a","n","d",":"," ","l","s">>>>,
    \* 18
    <<<<"I","D",":"," ","a","b","1","2">>,
      <<"C","o","m","m","a","n","d",":"," ","l","s">>>>,
    \* 19
    <<<<"E","x","e","c"," ","a","p","p","r","o","v","a","l"," ","r","e","q","u","i","r","e","d">>,
      <<"I","D",":"," ","x","y","z">>>>,
    \* 20
    <<<<"E","x","e","c"," ","a","p","p","r","o","v","a","l"," ","r","e","q","u","i","r","e","d">>,
      <<"I","D",":"," ","z","z">>,
      <<"I","D",":"," ","0","a">>>>,
    \* 21
    <<<<"E","x","e","c"," ","a","p","p","r","o","v","a","l"," ","r","e","q","u","i","r","e","d">>,
      <<"I","D",":"," ","7","f","-","3">>,
      <<"C","o","m","m","a","n","d",":"," ","e","c","h","o"," ","H","o","s","t",":"," ","x">>,
      <<"H","o","s","t",":"," ","b","o","x">>>>,
    \* 22
    <<<<"E","x","e","c"," ","a","p","p","r","o","v","a","l"," ","r","e","q","u","i","r","e","d">>,
      <<"I","D",":"," ","7","f","-","3">>,
      <<"H","o","s","t",":"," ","b","o","x">>,
      <<"C","o","m","m","a","n","d",":"," ","e","c","h","o"," ","H","o","s","t",":"," ","x">>>>,
    \* 23
    <<<<"E","x","e","c"," ","a","p","p","r","o","v","a","l"," ","r","e","q","u","i","r","e","d">>,
      <<"I","D",":"," ","7","f","-","3">>,
      <<"C","o","m","m","a","n","d",":"," ",Backtick,Backtick,Backtick>>,
      <<"l","i","n","e","1">>,
      <<"l","i","n","e","2">>,
      <<Backtick,Backtick,Backtick>>,
      <<"H","o","s","t",":"," ","b","o","x">>>>,
    \* 24
    <<<<"E","x","e","c"," ","a","p","p","r","o","v","a","l"," ","r","e","q","u","i","r","e","d">>,
      <<"I","D",":"," ","7","f","-","3">>,
      <<"C","o","m","m","a","n","d",":"," ",Backtick,Backtick,Backtick,"l","s",Backtick,Backtick,Backtick>>>>,
    \* 25
    <<<<"E","x","e","c"," ","a","p","p","r","o","v","a","l"," ","r","e","q","u","i","r","e","d">>,
      <<"I","D",":"," ","7","f","-","3">>,
      <<"H","o","s","t",":"," ","b","o","x">>>>,
    \* 26
    <<<<"N","o","t","e",":"," ","E","x","e","c"," ","a","p","p","r","o","v","a","l"," ","r","e","q","u","i","r","e","d"," ","s","o","o","n">>,
      <<"I","D",":"," ","7","f","-","3">>,
      <<"a","g","e","n","t",":"," ","d","e","v">>>>,
    \* 27
    <<<<"E","x","e","c"," ","a","p","p","r","o","v","a","l"," ","r","e","q","u","i","r","e","d">>,
      <<"I","D",":"," ","7","f","-","3">>,
      <<"C","o","m","m","a","n","d",":"," ",Backtick,Backtick,Backtick>>,
      <<"l","s"," ","-","a">>,
      <<Backtick,Backtick,Backtick>>>>
  >>

\* The text whose lines are ls: the lines joined by "\n".
RECURSIVE JoinLines(_)
JoinLines(ls) ==
  IF ls = <<>> THEN <<>>
  ELSE IF Len(ls) = 1 THEN ls[1]
  ELSE ls[1] \o <<"\n">> \o JoinLines(Tail(ls))

\* lib/message-formatter.ts. A pictograph is one character, written as
\* its name in parentheses.
\* escapeHtml: &, < and > become their entities.
RECURSIVE escapeHtml(_)
escapeHtml(text) ==
  IF text = <<>> THEN <<>>
  ELSE (IF Head(text) = "&" THEN <<"&","a","m","p",";">>
        ELSE IF Head(text) = "<" THEN <<"&","l","t",";">>
        ELSE IF Head(text) = ">" THEN <<"&","g","t",";">>
        ELSE <<Head(text)>>) \o escapeHtml(Tail(text))

\* formatApprovalRequest: the lines of the message, joined by "\n".
formatApprovalRequest(info) ==
  LET e(t) == escapeHtml(t)
  IN  JoinLines(<<
        <<"(lock-key)"," ","<","b",">","E","x","e","c"," ","A","p","p","r","o","v","a","l"," ","R","e","q","u","e","s","t","<","/","b",">">>,
        <<>>,
        <<"(robot)"," ","A","g","e","n","t",":"," ","<","b",">">> \o e(info.agent) \o <<"<","/","b",">">>,
        <<"(desktop)"," ","H","o","s","t",":"," ","<","b",">">> \o e(info.host) \o <<"<","/","b",">">>,
        <<"(folder)"," ","C","W","D",":"," ","<","c","o","d","e",">">> \o e(info.cwd) \o <<"<","/","c","o","d","e",">">>,
        <<>>,
        <<"<","p","r","e",">">> \o e(info.command) \o <<"<","/","p","r","e",">">>,
        <<>>,
        <<"(shield)"," ","S","e","c","u","r","i","t","y",":"," ">> \o e(info.security),
        <<"(question)"," ","A","s","k",":"," ">> \o e(info.ask),
        <<"(stopwatch)"," ","E","x","p","i","r","e","s",":"," ">> \o e(info.expires),
        <<"(id)"," ","<","c","o","d","e",">">> \o e(info.id) \o <<"<","/","c","o","d","e",">">>>>)

\* formatApprovalResolved, with ACTION_ICONS and ACTION_LABELS.
formatApprovalResolved(info, action) ==
  LET e(t) == escapeHtml(t)
      icon == IF action = "allow-always" THEN <<"(lock-pen)">>
              ELSE IF action = "deny" THEN <<"(cross)">>
              ELSE <<"(check)">>
      label == IF action = "allow-always" THEN <<"A","l","w","a","y","s"," ","a","l","l","o","w","e","d">>
               ELSE IF action = "deny" THEN <<"D","e","n","i","e","d">>
               ELSE <<"A","l","l","o","w","e","d"," ","(","o","n","c","e",")">>
  IN  JoinLines(<<
        icon \o <<" ","<","b",">","E","x","e","c"," ">> \o label \o <<"<","/","b",">">>,
        <<>>,
        <<"(robot)"," ","A","g","e","n","t",":"," ","<","b",">">> \o e(info.agent) \o <<"<","/","b",">">>,
        <<"(desktop)"," ","H","o","s","t",":"," ","<","b",">">> \o e(info.host) \o <<"<","/","b",">">>,
        <<"(folder)"," ","C","W","D",":"," ","<","c","o","d","e",">">> \o e(info.cwd) \o <<"<","/","c","o","d","e",">">>,
        <<>>,
        <<"<","p","r","e",">">> \o e(info.command) \o <<"<","/","p","r","e",">">>,
        <<>>,
        <<"(id)"," ","<","c","o","d","e",">">> \o e(info.id) \o <<"<","/","c","o","d","e",">">>>>)

\* lib/diagnostics.ts, resolveConfig. A string that is missing or empty is
\* <<>> (both are falsy); allowFrom is Null when it is no array. The result
\* is null or the bot token and the chat id it resolved.
resolveConfig(sources) ==
  LET Or(a, b) == IF a # <<>> THEN a ELSE b
      botToken == Or(sources.pluginConfig.botToken,
                     Or(sources.telegramChannelConfig.token,
                        sources.env.TELEGRAM_BOT_TOKEN))
      explicit == Or(sources.pluginConfig.chatId, sources.env.TELEGRAM_CHAT_ID)
      allowFrom == sources.telegramChannelConfig.allowFrom
      candidate == IF allowFrom = Null \/ allowFrom[1] = <<>>
                     THEN <<>> ELSE allowFrom[1][1]
      digits == IF candidate # <<>> /\ candidate[1] = "-"
                  THEN Tail(candidate) ELSE candidate
      numeric == /\ digits # <<>>
                 /\ \A k \in 1..Len(digits) :
                      digits[k] \in {"0","1","2","3","4","5","6","7","8","9"}
      chatId == IF explicit = <<>> /\ allowFrom # Null /\ numeric
                  THEN candidate ELSE explicit
  IN  IF botToken = <<>> \/ chatId = <<>>
        THEN Null
        ELSE Some([botToken |-> botToken, chatId |-> chatId])

\* The configuration sources: each token and chat id set or not, allowFrom
\* no array, empty, with a numeric first element, with a user name.
ConfigSources ==
  [pluginConfig : [botToken : {<<>>, <<"p">>}, chatId : {<<>>, <<"1","0">>}],
   telegramChannelConfig :
     [token : {<<>>, <<"c">>},
      allowFrom : {Null, Some(<<>>), Some(<<<<"-","2","0">>>>),
                   Some(<<<<"b","o","b">>>>)}],
   env : [TELEGRAM_BOT_TOKEN : {<<>>, <<"e">>},
          TELEGRAM_CHAT_ID : {<<>>, <<"3","0">>}]]

\* Approval ids made of hex digits and hyphens, among them ids that spell
\* the beginning of a keyword of inferAction.
HexIds ==
  {<<"a","b","1","2","c","d","3","4","-","e","f">>,
   <<"d">>, <<"d","e">>, <<"-">>,
   <<"d","e","c","0","d","e","-","d">>,
   <<"a","d","d","-","e","d">>,
   <<"0","a","1","1","-","a","c","e","d","-","f","e","e","d">>}

\* A faulty keyboard whose buttons all carry '/approve <id>' and no action.
buildApprovalKeyboardNoAction(approvalId) ==
  [a \in {"allow-once", "allow-always", "deny"} |->
     <<"/","a","p","p","r","o","v","e"," ">> \o approvalId]

\* buildApprovalKeyboard(approvalId): the callback_data of the button for
\* each action, '/approve <id> <action>' (the values of the Slack buttons
\* are the same).
buildApprovalKeyboard(approvalId) ==
  [a \in {"allow-once", "allow-always", "deny"} |->
     <<"/","a","p","p","r","o","v","e"," ">> \o approvalId \o <<" ">> \o
       (IF a = "allow-once" THEN S_allowOnce
        ELSE IF a = "allow-always" THEN S_allowAlways ELSE S_deny)]

\* A call that is about to be made: the function and its argument.
Pending(fn, arg) ==
  Some([fn |-> fn, arg |-> arg, called |-> FALSE, result |-> Null])

PureInit ==
  /\ config = [version |-> "v4", telegram |-> TRUE, slack |-> FALSE]
  /\ pending = <<>>
  /\ totalProcessed = 0
  /\ cleanupTimer = FALSE
  /\ timers = 0
  /\ now = 0
  /\ inflight = <<>>
  /\ calls = <<>>
  /\ delivered = {}
  /\ removed = {}
  /\ nextHandle = 1
  /\ nEvents = 0
  /\ step = Idle
  /\ health = Null
  /\ storeTimer = Null
  /\ held = Null
  /\ probe \in
       {Pending(fn, ls) : fn \in {"parseApprovalText", "inferAction"},
                          ls \in {PureLines[i] : i \in DOMAIN PureLines}}
       \cup {Pending("resolveConfig", sources) : sources \in ConfigSources}
       \cup {Pending("formatApprovalRequest", <<info>>) : info \in Infos}
       \cup {Pending("formatApprovalResolved", <<info, action>>) :
               info \in Infos,
               action \in {"allow-once", "allow-always", "deny"}}
       \cup {Pending("buildApprovalKeyboard", <<id, action>>) :
               id \in HexIds,
               action \in {"allow-once", "allow-always", "deny"}}

\* parseApprovalText(text)
CallParse ==
  /\ probe # Null
  /\ probe[1].fn = "parseApprovalText"
  /\ ~probe[1].called
  /\ probe' = Some([probe[1] EXCEPT
                      !.called = TRUE,
                      !.result = parseApprovalText(JoinLines(probe[1].arg))])
  /\ UNCHANGED <<config, pending, totalProcessed, cleanupTimer, timers, now,
                 inflight, calls, delivered, removed, nextHandle, nEvents,
                 step, held, health, storeTimer>>

\* inferAction(text)
CallInfer ==
  /\ probe # Null
  /\ probe[1].fn = "inferAction"
  /\ ~probe[1].called
  /\ probe' = Some([probe[1] EXCEPT
                      !.called = TRUE,
                      !.result = inferAction(JoinLines(probe[1].arg))])
  /\ UNCHANGED <<config, pending, totalProcessed, cleanupTimer, timers, now,
                 inflight, calls, delivered, removed, nextHandle, nEvents,
                 step, held, health, storeTimer>>

\* resolveConfig(sources, log)
CallResolveConfig ==
  /\ probe # Null
  /\ probe[1].fn = "resolveConfig"
  /\ ~probe[1].called
  /\ probe' = Some([probe[1] EXCEPT !.called = TRUE,
                                     !.result = resolveConfig(probe[1].arg)])
  /\ UNCHANGED <<config, pending, totalProcessed, cleanupTimer, timers, now,
                 inflight, calls, delivered, removed, nextHandle, nEvents,
                 step, held, health, storeTimer>>

\* formatApprovalRequest(info)
CallFormatRequest ==
  /\ probe # Null
  /\ probe[1].fn = "formatApprovalRequest"
  /\ ~probe[1].called
  /\ probe' = Some([probe[1] EXCEPT
                      !.called = TRUE,
                      !.result = formatApprovalRequest(probe[1].arg[1])])
  /\ UNCHANGED <<config, pending, totalProcessed, cleanupTimer, timers, now,
                 inflight, calls, delivered, removed, nextHandle, nEvents,
                 step, held, health, storeTimer>>

\* formatApprovalResolved(info, action)
CallFormatResolved ==
  /\ probe # Null
  /\ probe[1].fn = "formatApprovalResolved"
  /\ ~probe[1].called
  /\ probe' = Some([probe[1] EXCEPT
                      !.called = TRUE,
                      !.result = formatApprovalResolved(probe[1].arg[1],
                                                        probe[1].arg[2])])
  /\ UNCHANGED <<config, pending, totalProcessed, cleanupTimer, timers, now,
                 inflight, calls, delivered, removed, nextHandle, nEvents,
                 step, held, health, storeTimer>>

\* A button of the keyboard built for an id is pressed: the gateway turns
\* its callback_data into an outgoing text, which the hook runs through
\* the detector while the id is the one pending approval.
PressButton ==
  /\ probe # Null
  /\ probe[1].fn = "buildApprovalKeyboard"
  /\ ~probe[1].called
  /\ probe' = Some([probe[1] EXCEPT
                      !.called = TRUE,
                      !.result = detectApprovalResult(
                                   buildApprovalKeyboard(probe[1].arg[1])
                                     [probe[1].arg[2]],
                                   <<probe[1].arg[1]>>)])
  /\ UNCHANGED <<config, pending, totalProcessed, cleanupTimer, timers, now,
                 inflight, calls, delivered, removed, nextHandle, nEvents,
                 step, held, health, storeTimer>>

PureNext ==
  CallParse \/ CallInfer \/ CallResolveConfig \/ CallFormatRequest \/
  CallFormatResolved \/ PressButton

PureSpec == PureInit /\ [][PureNext]_vars

\* ------------------------------------------------------------------------
\* The sweep timer, in milliseconds: the store with the interval that
\* start() sets, fired by the runtime when it is due
\* ------------------------------------------------------------------------

\* The clock advances by TickMs, or to the instant the interval is due if
\* that comes first. start, stop and add are called during the first
\* MaxActTicks ticks; the clock runs on until every entry added by then
\* has met a sweep that finds it stale.
TickMs == 15000
MaxActTicks == 2

\* staleTtlMs is staleMins * 60 000 for staleMins of 0.5, 1, 1.5 and 2.
Ttls == {30000, 60000, 90000, 120000}

\* A faulty period without the floor.
intervalNoFloor(staleTtlMs) == staleTtlMs \div 2

\* A faulty period of the whole TTL.
intervalWholeTtl(staleTtlMs) ==
  IF staleTtlMs > 30000 THEN staleTtlMs ELSE 30000

\* const interval = Math.max(this.staleTtlMs / 2, 30_000); the TTLs of
\* Ttls are even, so the division is exact.
interval(staleTtlMs) ==
  IF staleTtlMs \div 2 > 30000 THEN staleTtlMs \div 2 ELSE 30000

\* cleanStale of a store constructed with staleTtlMs = ttl.
cleanStaleAt(ttl, m, t) ==
  LET stale == SelectSeq(m, LAMBDA kv : t - kv[2].sentAt > ttl)
  IN  [expired |-> [i \in 1..Len(stale) |-> stale[i][2]],
       pending |-> SelectSeq(m, LAMBDA kv : ~(t - kv[2].sentAt > ttl)),
       removed |-> Len(stale)]

ActUntil == MaxActTicks * TickMs
Horizon ==
  LET maxTtl == CHOOSE t \in Ttls : \A u \in Ttls : u <= t
  IN  ActUntil + maxTtl + 2 * interval(maxTtl)

TimerInit ==
  /\ storeTimer \in {[staleTtlMs |-> t, interval |-> Null] : t \in Ttls}
  /\ config = [version |-> "v4", telegram |-> TRUE, slack |-> FALSE]
  /\ pending = <<>>
  /\ totalProcessed = 0
  /\ cleanupTimer = FALSE
  /\ timers = 0
  /\ now = 0
  /\ inflight = <<>>
  /\ calls = <<>>
  /\ delivered = {}
  /\ removed = {}
  /\ nextHandle = 1
  /\ nEvents = 0
  /\ step = Called("new", <<>>, Null, <<>>, {}, FALSE)
  /\ held = Null
  /\ probe = Null
  /\ health = Null

\* store.start(): setInterval with the period computed now; the first
\* firing is one period away.
TimerStart ==
  /\ now <= ActUntil
  /\ LET r == start(cleanupTimer, timers)
         p == interval(storeTimer.staleTtlMs)
     IN  /\ cleanupTimer' = r.cleanupTimer
         /\ timers' = r.timers
         /\ storeTimer' =
              IF r.set
                THEN [storeTimer EXCEPT !.interval =
                        Some([period |-> p, due |-> now + p, since |-> now])]
                ELSE storeTimer
         /\ step' = Called("start", <<>>, r.set, <<>>, {}, FALSE)
  /\ UNCHANGED <<config, pending, totalProcessed, now, inflight, calls,
                 delivered, removed, nextHandle, nEvents, held, probe, health>>

\* store.stop(): clearInterval.
TimerStop ==
  /\ now <= ActUntil
  /\ LET r == stop(cleanupTimer, timers)
     IN  /\ cleanupTimer' = r.cleanupTimer
         /\ timers' = r.timers
         /\ storeTimer' =
              IF r.cleared THEN [storeTimer EXCEPT !.interval = Null]
                           ELSE storeTimer
         /\ step' = Called("stop", <<>>, r.cleared, <<>>, {}, FALSE)
  /\ UNCHANGED <<config, pending, totalProcessed, now, inflight, calls,
                 delivered, removed, nextHandle, nEvents, held, probe, health>>

\* store.add(id, messageId, info) at the current time.
TimerAdd ==
  /\ now <= ActUntil
  /\ nextHandle <= MaxAdds
  /\ \E info \in Infos :
       /\ pending' = addV4(pending, info.id, nextHandle, info, now)
       /\ step' = Called("add", <<info.id, nextHandle, info>>, Null, <<>>,
                         {}, FALSE)
  /\ nextHandle' = nextHandle + 1
  /\ UNCHANGED <<config, totalProcessed, cleanupTimer, timers, now, inflight,
                 calls, delivered, removed, nEvents, held, probe, health,
                 storeTimer>>

\* store.resolve(id) of a pending id.
TimerResolve ==
  /\ \E id \in AllIds :
       /\ has(pending, id)
       /\ LET r == resolve(pending, totalProcessed, id)
          IN  /\ pending' = r.pending
              /\ totalProcessed' = r.totalProcessed
              /\ step' = Called("resolve", <<id>>, r.entry, <<>>, {}, FALSE)
  /\ UNCHANGED <<config, cleanupTimer, timers, now, inflight, calls,
                 delivered, removed, nextHandle, nEvents, held, probe,
                 health, storeTimer>>

\* The interval is due: the runtime calls cleanStale and the next firing
\* is one period later.
TimerFire ==
  /\ storeTimer.interval # Null
  /\ now = storeTimer.interval[1].due
  /\ LET r == cleanStaleAt(storeTimer.staleTtlMs, pending, now)
     IN  /\ pending' = r.pending
         /\ step' = Called("cleanStale", <<>>, r.removed, r.expired, {},
                           FALSE)
  /\ storeTimer' = [storeTimer EXCEPT !.interval =
                      Some([@[1] EXCEPT !.due = @ + storeTimer.interval[1].period])]
  /\ UNCHANGED <<config, totalProcessed, cleanupTimer, timers, now, inflight,
                 calls, delivered, removed, nextHandle, nEvents, held, probe,
                 health>>

\* Time passes, up to the next firing of a running interval.
TimerTick ==
  /\ now < Horizon
  /\ storeTimer.interval # Null => now < storeTimer.interval[1].due
  /\ now' = IF storeTimer.interval # Null
              THEN Min(now + TickMs, storeTimer.interval[1].due)
              ELSE now + TickMs
  /\ step' = Called("tick", <<>>, Null, <<>>, {}, FALSE)
  /\ UNCHANGED <<config, pending, totalProcessed, cleanupTimer, timers,
                 inflight, calls, delivered, removed, nextHandle, nEvents,
                 held, probe, health, storeTimer>>

TimerNext ==
  \/ TimerStart \/ TimerStop \/ TimerAdd \/ TimerResolve
  \/ TimerFire \/ TimerTick

TimerSpec == TimerInit /\ [][TimerNext]_vars

\* The runtime keeps the clock going and fires an interval that is due.
FairTimerSpec ==
  TimerSpec /\ WF_vars(TimerTick) /\ WF_vars(TimerFire)

\* ------------------------------------------------------------------------
\* Properties
\* ------------------------------------------------------------------------

\* C1: duplicate guard. When an event on a configured channel carries a
\* text that parses as an approval request whose id is pending, the hook
\* answers suppress for it, issues no delivery or update call, and leaves
\* the pending map and processedCount as they were.
C1_DuplicateGuard ==
  [][(/\ step'.op = "event"
      /\ Configured(step'.ev.channel)
      /\ ParseTable[step'.ev.text] # Null
      /\ has(pending, ParseTable[step'.ev.text][1].id))
     => (/\ step'.decision = "suppress"
         /\ calls' = <<>>
         /\ pending' = pending
         /\ processedCount(totalProcessed') = processedCount(totalProcessed))]_vars

\* C2: whenever handling an event makes store.resolve return an entry,
\* the step issues exactly one call, the 'resolved' update for that entry:
\* on the entry's channel, to the entry's handle, with the entry's info
\* and the action inferred from the text.
C2_OneResolvedUpdate ==
  step.resolved # Null =>
    calls = <<ResolvedCall(ChannelOf(step.resolved[1]),
                           HandleOf(step.resolved[1]),
                           step.resolved[1].info,
                           ActionTable[step.ev.text])>>

\* C3: handling an event on one channel leaves every pending entry that
\* was delivered on the other channel in the store, and the entry that
\* store.resolve returns (and counts as processed) was delivered on the
\* channel of the event.
C3_OwnChannelOnly ==
  [][step'.op = "event" =>
       /\ \A i \in 1..Len(pending) :
            ChannelOf(pending[i][2]) # step'.ev.channel =>
              \E j \in 1..Len(pending') : pending'[j] = pending[i]
       /\ step'.resolved # Null =>
            ChannelOf(step'.resolved[1]) = step'.ev.channel]_vars

\* C4: when a handler returns after its delivery call came back with
\* handle h, the store holds an entry for the id parsed from the event's
\* text, with delivery handle h and the parsed record as info, and the
\* answer is suppress.
C4_DeliveredIsTracked ==
  (step.op = "send" /\ step.handle # Null) =>
    /\ ParseTable[step.ev.text] # Null
    /\ has(pending, ParseTable[step.ev.text][1].id)
    /\ HandleOf(MapGet(pending, ParseTable[step.ev.text][1].id)) = step.handle[1]
    /\ MapGet(pending, ParseTable[step.ev.text][1].id).info
         = ParseTable[step.ev.text][1]
    /\ step.decision = "suppress"

\* A handler has just returned after a successful delivery while another
\* entry was already pending.
C4_Witness ==
  /\ step.op = "send"
  /\ step.handle # Null
  /\ Len(pending) = 2
  /\ step.decision = "suppress"

\* C5: a handler whose delivery call fails answers pass-through, and
\* neither the step that issues the call nor the step that sees it fail
\* changes the pending map (so pendingCount) or processedCount.
C5_FailedDeliveryPassesThrough ==
  [][/\ (step'.op = "send" /\ step'.handle = Null) =>
          /\ step'.decision = "pass"
          /\ pending' = pending
          /\ pendingCount(pending') = pendingCount(pending)
          /\ processedCount(totalProcessed') = processedCount(totalProcessed)
     /\ (step'.op = "event" /\ step'.why = "awaitSend") =>
          /\ pending' = pending
          /\ processedCount(totalProcessed') = processedCount(totalProcessed)]_vars

\* A delivery call has just failed while an entry was pending.
C5_Witness ==
  /\ step.op = "send"
  /\ step.handle = Null
  /\ step.decision = "pass"
  /\ Len(pending) >= 1

\* C6: whenever the hook answers suppress for an event, a button message
\* carrying the approval id of that event's text has been delivered and
\* an entry for that id is pending.
C6_SuppressOnlyWhenDelivered ==
  step.decision = "suppress" =>
    /\ ParseTable[step.ev.text] # Null
    /\ \E d \in delivered : d.id = ParseTable[step.ev.text][1].id
    /\ has(pending, ParseTable[step.ev.text][1].id)

\* The hook has just answered suppress, on Slack.
C6_Witness ==
  /\ step.decision = "suppress"
  /\ step.ev.channel = "slack"
  /\ delivered # {}

\* C7: an event the detector matches to a pending id is never suppressed:
\* the handler either returns pass-through at once or waits for the
\* update call, and after the update call, successful or not, it returns
\* pass-through.
C7_MatchedNeverSuppressed ==
  [][/\ (/\ step'.op = "event"
         /\ Configured(step'.ev.channel)
         /\ DetectTable[<<step'.ev.text, Keys(entries(pending))>>] # Null)
        => \/ step'.decision = "pass"
           \/ /\ step'.decision = "none"
              /\ Len(inflight') = Len(inflight) + 1
              /\ inflight'[Len(inflight')].pc = "awaitEdit"
     /\ step'.op = "edit" => step'.decision = "pass"]_vars

\* A handler has just returned after its update call failed.
C7_Witness ==
  /\ step.op = "edit"
  /\ step.why = "editFailed"
  /\ step.decision = "pass"

\* C8: no entry (an entry being known by its delivery handle) leaves the
\* store both by resolve and by the sweep.
C8_ResolveOrSweepNeverBoth ==
  \A a, b \in removed : a.handle = b.handle => a.by = b.by

\* One entry has left by resolve and another by the sweep.
C8_Witness ==
  \E a, b \in removed : a.by = "resolve" /\ b.by = "sweep"

\* C9: once an id has left the store by resolve or by expiry it is never
\* pending again.
C9_RemovedIsTerminal ==
  \A r \in removed : ~has(pending, r.id)

\* C10: a sweep hands to the expiry callback each entry it removes,
\* exactly once and as it was in the store, and no entry that stays or
\* that left the store before; the callback issues one 'expired' update
\* per entry, on the entry's channel, to the entry's handle.
C10_ExpiryCallback ==
  [][step'.op = "sweep" =>
       LET gone == {i \in 1..Len(pending) : ~has(pending', pending[i][1])}
           cb   == step'.expired
       IN  /\ \A i \in gone :
                Cardinality({k \in 1..Len(cb) : cb[k] = pending[i][2]}) = 1
           /\ \A k \in 1..Len(cb) :
                /\ \E i \in gone : cb[k] = pending[i][2]
                /\ \A j \in 1..Len(pending') : pending'[j][2] # cb[k]
                /\ \A r \in removed : r.handle # HandleOf(cb[k])
           /\ Len(calls') = Len(cb)
           /\ \A k \in 1..Len(cb) :
                calls'[k] = ExpiredCall(ChannelOf(cb[k]), HandleOf(cb[k]),
                                        cb[k].info)]_vars

\* A sweep has just removed one entry and left another.
C10_Witness ==
  /\ step.op = "sweep"
  /\ Len(step.expired) = 1
  /\ Len(pending) = 1
  /\ Len(calls) = 1

\* C11: resolve is idempotent. A call of resolve(id) for a pending id
\* returns the entry the store holds for it (the one add stored, with its
\* message id), leaves has(id) false and raises processedCount by one; a
\* call for an id that is not pending (resolved before, or never added)
\* returns undefined and leaves the pending map and processedCount as
\* they were.
C11_ResolveOnce ==
  [][step'.op = "resolve" =>
       LET id == step'.args[1]
       IN  IF has(pending, id)
             THEN /\ step'.ret = Some(MapGet(pending, id))
                  /\ ~has(pending', id)
                  /\ processedCount(totalProcessed') =
                       processedCount(totalProcessed) + 1
             ELSE /\ step'.ret = Null
                  /\ pending' = pending
                  /\ processedCount(totalProcessed') =
                       processedCount(totalProcessed)]_vars

\* A resolve that found nothing, after a resolve that found the one entry
\* there was.
C11_Witness ==
  /\ step.op = "resolve"
  /\ step.ret = Null
  /\ totalProcessed = 1
  /\ pending = <<>>

\* C12: processedCount never goes down; it goes up by one in a call of
\* resolve that returns an entry and stays as it is in every other call
\* (add, has, get, entries, cleanStale, a resolve that returns undefined).
C12_ProcessedCount ==
  [][IF step'.op = "resolve" /\ step'.ret # Null
       THEN processedCount(totalProcessed') =
              processedCount(totalProcessed) + 1
       ELSE processedCount(totalProcessed') =
              processedCount(totalProcessed)]_vars

\* A sweep removed an entry after a resolve was counted: the counter
\* stayed at one.
C12_Witness ==
  /\ step.op = "cleanStale"
  /\ step.ret = 1
  /\ processedCount(totalProcessed) = 1

\* C13: pendingCount is the number of ids for which has answers true,
\* whatever calls of add, resolve and cleanStale came before.
C13_PendingCount ==
  pendingCount(pending) = Cardinality({id \in AllIds : has(pending, id)})

\* Two ids were added, one was resolved, a sweep left the other.
C13_Witness ==
  /\ step.op = "cleanStale"
  /\ pendingCount(pending) = 1
  /\ processedCount(totalProcessed) = 1
  /\ nextHandle = 3

\* C14: cleanStale removes the entries whose age, now - sentAt, is greater
\* than the TTL, and only those: an entry of age TTL or less stays as it
\* is, no id appears, and the number cleanStale returns is the number by
\* which pendingCount went down.
C14_SweepRemovesExactlyStale ==
  [][step'.op = "cleanStale" =>
       /\ \A i \in 1..Len(pending) :
            IF now - pending[i][2].sentAt > StaleTtlMs
              THEN ~has(pending', pending[i][1])
              ELSE get(pending', pending[i][1]) = Some(pending[i][2])
       /\ \A id \in AllIds : has(pending', id) => has(pending, id)
       /\ step'.ret = pendingCount(pending) - pendingCount(pending')]_vars

\* A sweep removed one entry and kept one whose age is the TTL.
C14_Witness ==
  /\ step.op = "cleanStale"
  /\ step.ret = 1
  /\ \E i \in 1..Len(pending) : now - pending[i][2].sentAt = StaleTtlMs

\* C15: sweep isolation. When onExpired throws for some of the stale
\* entries, cleanStale does not throw, no stale entry is left pending,
\* and the number returned is the number of stale entries.
C15_SweepIsolation ==
  [][/\ step'.op = "cleanStale"
     /\ \E i \in 1..Len(pending) :
          /\ now - pending[i][2].sentAt > StaleTtlMs
          /\ HandleOf(pending[i][2]) \in step'.bad
     => /\ ~step'.threw
        /\ \A i \in 1..Len(pending) :
             now - pending[i][2].sentAt > StaleTtlMs
               => ~has(pending', pending[i][1])
        /\ step'.ret =
             Cardinality({i \in 1..Len(pending) :
                            now - pending[i][2].sentAt > StaleTtlMs})]_vars

\* A sweep removed two entries although the callback threw for the first.
C15_Witness ==
  /\ step.op = "cleanStale"
  /\ step.ret = 2
  /\ HandleOf(step.expired[1]) \in step.bad
  /\ pending = <<>>

\* C16: at most one sweep timer. Whatever calls of start and stop came
\* before, the store has at most one interval running; a call of start
\* while one is running sets no other and leaves the one there is.
C16_OneTimer ==
  [][/\ timers' <= 1
     /\ step'.op = "start" /\ cleanupTimer
          => /\ step'.ret = FALSE
             /\ timers' = timers
             /\ cleanupTimer' = cleanupTimer]_vars

\* A call of start that found the timer set and set no other.
C16_Witness ==
  /\ step.op = "start"
  /\ step.ret = FALSE
  /\ cleanupTimer
  /\ timers = 1

\* C17: once stop has returned, no interval of the store is running and
\* no timer-driven sweep happens before the next call of start, also
\* while handlers wait for their delivery call; a call of stop on a store
\* that was never started or is stopped already changes nothing.
C17_NoSweepAfterStop ==
  [][/\ ~cleanupTimer' => timers' = 0
     /\ step'.op = "sweep" => cleanupTimer
     /\ step'.op = "stop" /\ ~cleanupTimer
          => UNCHANGED <<cleanupTimer, timers, pending, totalProcessed,
                         inflight, delivered, removed>>]_vars

\* stop has returned while a handler waits for its delivery call and a
\* stale entry is pending: no sweep can take it.
C17_Witness ==
  /\ step.op = "stop"
  /\ ~cleanupTimer
  /\ inflight # <<>>
  /\ \E i \in 1..Len(pending) : now - pending[i][2].sentAt > StaleTtlMs

\* C18: the value entries() returns gives its holder no way to change the
\* store: the pending map and processedCount change only in a call of
\* add, resolve or cleanStale.
C18_EntriesIsReadOnly ==
  [][pending' # pending \/ totalProcessed' # totalProcessed
       => step'.op \in {"add", "resolve", "cleanStale"}]_vars

\* C19: add for an id that is pending replaces its entry: the entry has
\* the new message id, the new info and sentAt = now, the call does not
\* throw, pendingCount and processedCount stay as they were, every other
\* entry stays, and onExpired is not called for the entry replaced.
C19_AddReplaces ==
  [][step'.op = "add" /\ has(pending, step'.args[1])
       => /\ get(pending', step'.args[1]) =
               Some([messageId |-> step'.args[2], info |-> step'.args[3],
                     sentAt |-> now])
          /\ step'.args[2] # HandleOf(MapGet(pending, step'.args[1]))
          /\ ~step'.threw
          /\ step'.expired = <<>>
          /\ pendingCount(pending') = pendingCount(pending)
          /\ processedCount(totalProcessed') = processedCount(totalProcessed)
          /\ \A id \in AllIds \ {step'.args[1]} :
               get(pending', id) = get(pending, id)]_vars

\* A second add for the one pending id, later than the first: the entry
\* has the second message id and the later sentAt.
C19_Witness ==
  /\ step.op = "add"
  /\ nextHandle = 3
  /\ totalProcessed = 0
  /\ pendingCount(pending) = 1
  /\ HandleOf(pending[1][2]) = 2
  /\ pending[1][2].sentAt = 1

\* C20: the detector answers with a result exactly when some pending id,
\* or the first eight characters of one, occurs in the text as a
\* substring; the id of the result is then the first such id in the
\* order of the pending map, also when a later pending id occurs in the
\* text in its full form.
C20_DetectFirstMatch ==
  probe # Null /\ probe[1].called =>
    LET text == probe[1].text
        ids == probe[1].ids
        result == probe[1].result
        Occurs(sub) ==
          \E p \in 0..(Len(text) - Len(sub)) :
            \A k \in 1..Len(sub) : text[p + k] = sub[k]
        First8(id) ==
          IF Len(id) <= ShortLen THEN id ELSE [k \in 1..ShortLen |-> id[k]]
        Hit(i) == Occurs(ids[i]) \/ Occurs(First8(ids[i]))
    IN  IF \E i \in 1..Len(ids) : Hit(i)
          THEN /\ result # Null
               /\ \E i \in 1..Len(ids) :
                    /\ Hit(i)
                    /\ \A j \in 1..(i - 1) : ~Hit(j)
                    /\ result[1].id = ids[i]
          ELSE result = Null

\* The text carries the second id in full and of the first only the
\* eight characters the two share: the detector answers with the first.
C20_Witness ==
  /\ probe # Null
  /\ probe[1].called
  /\ probe[1].ids = <<D_first, D_second>>
  /\ probe[1].text = D_texts[3]
  /\ probe[1].result # Null
  /\ probe[1].result[1].id = D_first

\* C21: the action the detector infers follows a fixed precedence on the
\* text without regard to case: allow-always when the text contains
\* "allow-always" or "always allow"; otherwise deny when it contains
\* "deny", "denied" or "rejected"; otherwise allow-once. A text with both
\* "allow-always" and "deny" gives allow-always; the result is one of the
\* three actions and never null.
C21_ActionPrecedence ==
  probe # Null /\ probe[1].fn = "inferAction" /\ probe[1].called =>
    LET text == JoinLines(probe[1].arg)
        Has(kw) ==
          \E p \in 0..(Len(text) - Len(kw)) :
            \A k \in 1..Len(kw) : LowerChar(text[p + k]) = kw[k]
    IN  /\ probe[1].result \in {"allow-once", "allow-always", "deny"}
        /\ probe[1].result =
             IF Has(S_allowAlways) \/ Has(S_alwaysAllow) THEN "allow-always"
             ELSE IF Has(S_deny) \/ Has(S_denied) \/ Has(S_rejected)
               THEN "deny"
             ELSE "allow-once"

\* The text "deny allow-always" gave allow-always.
C21_Witness ==
  /\ probe # Null
  /\ probe[1].fn = "inferAction"
  /\ probe[1].called
  /\ probe[1].arg = PureLines[3]
  /\ probe[1].result = "allow-always"

\* C22: parseApprovalText returns null exactly when the text lacks the
\* marker "exec approval required" (in any case) or lacks an "ID:" label
\* (in any case) followed, after optional white space, by at least one
\* hex digit or hyphen; a result that is not null has a non-empty id.
C22_ParseNullIffNoMarkerOrId ==
  probe # Null /\ probe[1].fn = "parseApprovalText" /\ probe[1].called =>
    LET text == JoinLines(probe[1].arg)
        At(p, pat) ==
          /\ p + Len(pat) - 1 <= Len(text)
          /\ \A k \in 1..Len(pat) :
               LowerChar(text[p + k - 1]) = LowerChar(pat[k])
        HasMarker == \E p \in 1..Len(text) : At(p, S_marker)
        HexOrHyphen(c) ==
          LowerChar(c) \in {"0","1","2","3","4","5","6","7","8","9",
                            "a","b","c","d","e","f","-"}
        HasId ==
          \E p \in 1..Len(text), q \in 1..Len(text) :
            /\ At(p, S_idLabel)
            /\ q >= p + Len(S_idLabel)
            /\ \A j \in (p + Len(S_idLabel))..(q - 1) : IsSpace(text[j])
            /\ HexOrHyphen(text[q])
    IN  /\ probe[1].result = Null <=> ~HasMarker \/ ~HasId
        /\ probe[1].result # Null => probe[1].result[1].id # <<>>

\* The marker is there and so is "ID:", but with a token that is no hex
\* token: the result is null.
C22_Witness ==
  /\ probe # Null
  /\ probe[1].fn = "parseApprovalText"
  /\ probe[1].called
  /\ probe[1].arg = PureLines[19]
  /\ probe[1].result = Null

\* C23: when the marker and an id are there, a field whose label occurs
\* nowhere in the text has its default (command and cwd "unknown", host
\* "gateway", agent "main", security "allowlist", ask "on-miss", expires
\* "120s"), and a field for which the text has a "Label: value" line has
\* the trimmed rest of that line (for the command: of a line without a
\* fence).
C23_DefaultsAndLineValues ==
  probe # Null /\ probe[1].fn = "parseApprovalText" /\ probe[1].called
               /\ probe[1].result # Null =>
    LET lines == probe[1].arg
        info == probe[1].result[1]
        Fields ==
          {<<"command", S_cmdLabel, S_unknown>>,
           <<"cwd", S_cwdLabel, S_unknown>>,
           <<"host", S_hostLabel, S_gateway>>,
           <<"agent", S_agentLabel, S_main>>,
           <<"security", S_secLabel, S_allowlist>>,
           <<"ask", S_askLabel, S_onmiss>>,
           <<"expires", S_expLabel, S_120s>>}
        At(l, p, pat) ==
          /\ p + Len(pat) - 1 <= Len(l)
          /\ \A k \in 1..Len(pat) : LowerChar(l[p + k - 1]) = LowerChar(pat[k])
        Rest(l, pat) == SubSeq(l, Len(pat) + 1, Len(l))
    IN  \A f \in Fields :
          /\ (\A i \in 1..Len(lines) : \A p \in 1..Len(lines[i]) :
                ~At(lines[i], p, f[2]))
               => info[f[1]] = f[3]
          /\ \A i \in 1..Len(lines) :
               /\ At(lines[i], 1, f[2])
               /\ trim(Rest(lines[i], f[2])) # <<>>
               /\ \A p \in 1..Len(lines[i]) : lines[i][p] # Backtick
               => info[f[1]] = trim(Rest(lines[i], f[2]))

\* C24: when the line "Command:" opens a fenced block (three backticks)
\* that a later line closes, the parsed command is the whole content of
\* the block, all the lines between the two fences.
C24_FencedCommandIsWholeBlock ==
  probe # Null /\ probe[1].fn = "parseApprovalText" /\ probe[1].called
               /\ probe[1].result # Null =>
    LET lines == probe[1].arg
        fence == <<Backtick, Backtick, Backtick>>
    IN  \A i \in 1..Len(lines), j \in 1..Len(lines) :
          /\ lines[i] = S_cmdLabel \o <<" ">> \o fence
          /\ i + 1 < j
          /\ lines[j] = fence
          /\ \A k \in (i + 1)..(j - 1) : lines[k] # fence
          => probe[1].result[1].command = JoinLines(SubSeq(lines, i + 1, j - 1))

\* C25: parsing is order-independent. Two texts made of the same lines in
\* a different order give the same result, also when the value of one
\* field contains what looks like the label of another.
C25_OrderIndependent ==
  probe # Null /\ probe[1].fn = "parseApprovalText" /\ probe[1].called =>
    LET lines == probe[1].arg
        Count(ls, l) == Cardinality({i \in 1..Len(ls) : ls[i] = l})
        Permuted(ls) ==
          /\ Len(ls) = Len(lines)
          /\ \A i \in 1..Len(ls) : Count(ls, ls[i]) = Count(lines, ls[i])
    IN  \A n \in DOMAIN PureLines :
          Permuted(PureLines[n])
            => parseApprovalText(JoinLines(PureLines[n])) = probe[1].result

\* C26: config resolution follows the documented priority. The bot token
\* is pluginConfig.botToken, else channels.telegram.token, else
\* TELEGRAM_BOT_TOKEN; the chat id is pluginConfig.chatId, else
\* channels.telegram.allowFrom[0], else TELEGRAM_CHAT_ID.
C26_ConfigPriority ==
  probe # Null /\ probe[1].fn = "resolveConfig" /\ probe[1].called
               /\ probe[1].result # Null =>
    LET sources == probe[1].arg
        allowFrom == sources.telegramChannelConfig.allowFrom
        first == IF allowFrom = Null \/ allowFrom[1] = <<>>
                   THEN <<>> ELSE allowFrom[1][1]
        Pick(a, b, c) == IF a # <<>> THEN a ELSE IF b # <<>> THEN b ELSE c
    IN  /\ probe[1].result[1].botToken =
             Pick(sources.pluginConfig.botToken,
                  sources.telegramChannelConfig.token,
                  sources.env.TELEGRAM_BOT_TOKEN)
        /\ probe[1].result[1].chatId =
             Pick(sources.pluginConfig.chatId, first,
                  sources.env.TELEGRAM_CHAT_ID)

\* C27: the rendered Telegram request shows agent, cwd, command, expires
\* and id and has no "Security:", "Ask:" or "Host:" field; the rendered
\* resolved message has no "Security:", "Ask:", "Expires:" or "Host:"
\* field.
C27_RenderedFields ==
  probe # Null /\ probe[1].called
               /\ probe[1].fn \in {"formatApprovalRequest",
                                   "formatApprovalResolved"} =>
    LET html == probe[1].result
        info == probe[1].arg[1]
        In(sub) ==
          \E p \in 0..(Len(html) - Len(sub)) :
            \A k \in 1..Len(sub) : html[p + k] = sub[k]
    IN  /\ ~In(S_secLabel)
        /\ ~In(S_askLabel)
        /\ ~In(S_hostLabel)
        /\ probe[1].fn = "formatApprovalRequest"
             => /\ In(info.agent)
                /\ In(info.cwd)
                /\ In(info.command)
                /\ In(info.expires)
                /\ In(info.id)
        /\ probe[1].fn = "formatApprovalResolved"
             => ~In(<<"E","x","p","i","r","e","s",":">>)

\* C28: an update pushed for a resolved or an expired approval carries no
\* approval buttons: the Telegram edit has no reply_markup, the Slack
\* update no actions block.
C28_UpdatesCarryNoButtons ==
  \A i \in 1..Len(calls) :
    calls[i].kind \in {"resolved", "expired"}
      => /\ "reply_markup" \notin calls[i].parts
         /\ "actions" \notin calls[i].parts

\* A sweep pushed the expired update for a Telegram message.
C28_Witness ==
  \E i \in 1..Len(calls) :
    /\ calls[i].kind = "expired"
    /\ calls[i].channel = "telegram"
    /\ "message_id" \in calls[i].parts

\* C29: an event whose text the detector matches to no pending id and the
\* parser does not take for an approval request passes through: the hook
\* answers pass-through, makes no delivery or update call, suspends no
\* handler and leaves the pending map and processedCount as they were.
C29_UnrelatedPassesThrough ==
  [][/\ step'.op = "event"
     /\ DetectTable[<<step'.ev.text, Keys(entries(pending))>>] = Null
     /\ ParseTable[step'.ev.text] = Null
     => /\ step'.decision = "pass"
        /\ calls' = <<>>
        /\ inflight' = inflight
        /\ pending' = pending
        /\ processedCount(totalProcessed') = processedCount(totalProcessed)]_vars

\* An "/approve" text for an id that is not pending passed through while
\* another id was pending.
C29_Witness ==
  /\ step.op = "event"
  /\ Texts[step.ev.text] = T_approve
  /\ step.why = "notApproval"
  /\ step.decision = "pass"
  /\ pending # <<>>

\* C30: the status command is read-only. The step that invokes the health
\* check and every step in which one of its connectivity calls returns
\* leave the pending set and processedCount as they were, whatever events
\* and sweeps run in between; the health object is built with the store's
\* pendingCount and processedCount of the state it was invoked in, keeps
\* those figures while it waits, and the report returned carries them.
C30_StatusIsReadOnly ==
  [][/\ (health = Null /\ health' # Null) =>
          /\ pending' = pending
          /\ totalProcessed' = totalProcessed
          /\ health'[1].store.pending = pendingCount(pending)
          /\ health'[1].store.totalProcessed = processedCount(totalProcessed)
     /\ (health # Null /\ health' # health) =>
          /\ pending' = pending
          /\ totalProcessed' = totalProcessed
          /\ (health' # Null => health'[1].store = health[1].store)
          /\ (health' = Null =>
                /\ step'.op = "statusDone"
                /\ step'.report.store = health[1].store)]_vars

\* A health check returns figures that are no longer the store's: the
\* store changed while the check was waiting for the platform.
C30_Witness ==
  /\ step.op = "statusDone"
  /\ step.report.store.pending # pendingCount(pending)
  /\ step.report.store.totalProcessed # processedCount(totalProcessed)

C33_NullConfigInstallsNothing ==
  (~config.telegram /\ ~config.slack) =>
    /\ step.decision # "suppress"
    /\ step.op \in {"idle", "event"}
    /\ step.op = "event" => step.decision = "pass"
    /\ inflight = <<>> /\ calls = <<>> /\ delivered = {}
    /\ pending = <<>> /\ totalProcessed = 0 /\ removed = {}
    /\ ~cleanupTimer /\ timers = 0
    /\ health = Null

\* Without a configuration an approval request on Telegram has gone
\* through untouched.
C33_Witness ==
  /\ ~config.telegram /\ ~config.slack
  /\ step.op = "event"
  /\ step.ev.channel = "telegram"
  /\ ParseTable[step.ev.text] # Null
  /\ step.decision = "pass"
  /\ nEvents = MaxEvents

C36_ConcurrentResolveOnce ==
  [][step'.op = "event" =>
       /\ step'.resolved # Null =>
            /\ Left(step'.resolved[1], "resolve") \notin removed
            /\ totalProcessed' = totalProcessed + 1
            /\ Len(calls') <= 1
       /\ step'.resolved = Null =>
            /\ totalProcessed' = totalProcessed
            /\ \A c \in 1..Len(calls') : calls'[c].kind # "resolved"]_vars

\* The second resolution message arrived while the handler of the first
\* was waiting for its update: it passed, and one entry has been counted.
C36_Witness ==
  /\ step.op = "event"
  /\ step.resolved = Null
  /\ step.decision = "pass"
  /\ \E i \in 1..Len(inflight) :
       /\ inflight[i].pc = "awaitEdit"
       /\ inflight[i].ev = step.ev
  /\ totalProcessed = 1
  /\ pending = <<>>

C38_ButtonRoundTrip ==
  (probe # Null /\ probe[1].fn = "buildApprovalKeyboard" /\ probe[1].called)
    => probe[1].result =
         Some([id |-> probe[1].arg[1], action |-> probe[1].arg[2]])

\* The Allow Once button of an id that begins like 'deny' came back as
\* allow-once for that id.
C38_Witness ==
  /\ probe # Null
  /\ probe[1].fn = "buildApprovalKeyboard"
  /\ probe[1].called
  /\ probe[1].arg = <<<<"d","e">>, "allow-once">>
  /\ probe[1].result # Null
  /\ probe[1].result[1].action = "allow-once"

\* C39: an event on a channel that is neither 'telegram' nor 'slack', or
\* on a channel for which no client is configured, has no effect: the
\* answer is pass-through, no delivery or update call is made, no handler
\* is left waiting and the store is as it was, also when the text is an
\* approval request or names a pending id.
C39_OtherChannelsUntouched ==
  [][(/\ step'.op = "event"
      /\ ~(step'.ev.channel = "telegram" /\ config.telegram)
      /\ ~(step'.ev.channel = "slack" /\ config.slack))
     => (/\ step'.decision = "pass"
         /\ calls' = <<>>
         /\ inflight' = inflight
         /\ pending' = pending
         /\ totalProcessed' = totalProcessed
         /\ removed' = removed
         /\ delivered' = delivered)]_vars

\* A message that names the pending id went out on a channel the plugin
\* does not serve, and the approval is still pending.
C39_Witness ==
  /\ step.op = "event"
  /\ step.ev.channel = "discord"
  /\ step.decision = "pass"
  /\ Len(pending) = 1
  /\ DetectTable[<<step.ev.text, Keys(entries(pending))>>] # Null

====
